---- MODULE Spec2Model ----
(***************************************************************************)
(* Festivalpatch: the builder page (src/app/festival/builder/page.tsx),    *)
(* the techlist page (src/app/techlist/page.tsx), the patch page           *)
(* (src/app/festival/patch/page.tsx) and the matrix page                   *)
(* (src/unnamed/part_004).  The store (bands, patch_channels,              *)
(* band_channel_usage of one event, techlists and their channels), the     *)
(* React state of one browser session, and the handlers of the pages.      *)
(*                                                                         *)
(* Spec           one session of the builder; every handler is one action, *)
(*                evaluated against the state of the render it was created *)
(*                in (the unprimed variables).                             *)
(* SpecFaults     Spec with store statements that answer with an error.    *)
(* SpecRenumber   applyChannelOrder statement by statement against a store *)
(*                that checks unique(event_id, channel_number) on every    *)
(*                statement.                                               *)
(* SpecValidation the save handlers of the three pages on forms that may   *)
(*                be refused.                                              *)
(* SpecTwoRuns    applyChannelOrder of two sessions on the same event.     *)
(* SpecAutosave   the auto-save timers of the techlist and of the builder. *)
(* SpecSelection  the ordered selection of the techlist and the patch list *)
(*                of the builder under toggle, move and drag reorder.      *)
(* SpecUnknownIds the handlers of the techlist on ids outside the loaded   *)
(*                catalog.                                                 *)
(* SpecCatalog    the order of the catalog over lists of categories and    *)
(*                channels, with channels added on the builder.            *)
(* SpecTwoSaves   band saves of two sessions, store call by store call.    *)
(* SpecSaveRuns   manual and automatic saves of one session that await the *)
(*                store together.                                          *)
(* SpecMatrix     band saves on the builder and cell toggles on the matrix *)
(*                page, with the store's reference from usage rows to      *)
(*                patch_channels.                                          *)
(***************************************************************************)
EXTENDS Integers, Sequences, FiniteSets, TLC

VARIABLES
    dbBands,            \* table bands of the event
    dbPatch,            \* table patch_channels of the event
    dbUsage,            \* table band_channel_usage
    nextPatchId,        \* next id the store hands out for a patch_channels row
    bands,              \* useState bands
    patchChannels,      \* useState patchChannels
    usageMap,           \* useState usageMap
    editingBandId,      \* useState editingBandId
    newBandName,        \* useState newBandName
    newBandSelection,   \* useState newBandSelection: the channels checked
    bandDirty,          \* useState bandDirty
    error,              \* useState error
    runPhase,           \* applyChannelOrder: "idle", "phase1", "phase2", "done"
    runOrder,           \* applyChannelOrder: orderedIds
    runPending,         \* applyChannelOrder: positions whose update is in flight
    runStart,           \* patch_channels rows when the current run started
    uniqueViolation,    \* the store rejected an update of the last operation
    lastOp,             \* what completed last: "load", "save", "new" (empty form), "other"
    lastSave,           \* when a band save completed last: the band, the channels selected,
                        \* whether it repeated the save before it, how many records
                        \* its prune deleted, how many usage rows the store deleted
                        \* with them, and the store call that failed
    route,              \* the page of the session: "builder", "techlist", "patch"
    catalog,            \* builder, techlist: useState categories and canonicalChannels
                        \* (channels), as loadBase and handleAddChannel set them
    saves,              \* builder: per browser session, how far its handleAddBand call
                        \* is, with the patchChannels, canonicalIds and canonicalToPatch
                        \* of that call
    saveRuns,           \* builder, techlist: useState savingBand / saving, and the renders
                        \* of the handleAddBand / handleSaveTechlist calls that await the
                        \* store
    saveReachedStore,   \* the save requested last issued a store call
    autoSaveTimerRef,   \* useRef autoSaveTimerRef: NoClosure, or the form content of the
                        \* render whose handler the pending timer calls
    otherRun,           \* applyChannelOrder of a second session: phase, orderedIds, pending
    dbTechlists,        \* table techlists
    dbTechlistChannels, \* table techlist_channels
    channels,           \* techlist, patch page: useState channels, the active catalog
    selectedTechlistId, \* techlist: useState selectedTechlistId
    bandName,           \* techlist: useState bandName
    bandNotes,          \* techlist: useState bandNotes
    selectedChannelIds, \* techlist, patch page: useState selectedChannelIds
    channelOrder,       \* techlist: useState channelOrder
    channelDetails,     \* techlist: useState channelDetails, the channels whose details were typed
    isDirty,            \* techlist: useState isDirty
    saveRun,            \* techlist: NoClosure, or the render content of the handleSaveTechlist
                        \* call that awaits the store
    saveMessage         \* patch page: useState saveMessage

techVars == <<dbTechlists, dbTechlistChannels, channels, selectedTechlistId, bandName,
              bandNotes, selectedChannelIds, channelOrder, channelDetails, isDirty,
              saveRun, saveMessage>>
techVarsButMessage == <<dbTechlists, dbTechlistChannels, channels, selectedTechlistId,
                        bandName, bandNotes, selectedChannelIds, channelOrder, channelDetails,
                        isDirty, saveRun>>
sessionVars == <<route, catalog, saves, saveRuns>>
pageVars == <<sessionVars, saveReachedStore, autoSaveTimerRef, otherRun, techVars>>

vars == <<dbBands, dbPatch, dbUsage, nextPatchId, bands, patchChannels,
          usageMap, editingBandId, newBandName, newBandSelection, bandDirty,
          error, runPhase, runOrder, runPending, runStart, uniqueViolation,
          lastOp, lastSave, pageVars>>

dbVars == <<dbBands, dbPatch, dbUsage, nextPatchId>>
formVars == <<editingBandId, newBandName, newBandSelection, bandDirty, error>>
localVars == <<bands, patchChannels, usageMap>>
runVars == <<runPhase, runOrder, runPending, runStart>>

----------------------------------------------------------------------------
(* Bounds *)

MaxPatchIds == 3        \* patch_channels rows the store creates in one behaviour
MaxBands == 2           \* bands of the event
MaxSelected == 2        \* channels checked in the form when a band is saved
MaxRecords == 3         \* SpecRenumber: records of the event
MaxNumber == 4          \* SpecRenumber: largest ordinary number held before a run

----------------------------------------------------------------------------
(* Program constants *)

Null == 0               \* null (ids are positive)
TempOffset == 1000      \* phase 1 writes idx + 1000
Sentinel == 9999        \* weight of an unrecognised category

----------------------------------------------------------------------------
(* Sequences *)

Range(s) == {s[i] : i \in DOMAIN s}

IndexOf(s, x) == IF \E i \in DOMAIN s : s[i] = x
                 THEN CHOOSE i \in DOMAIN s : s[i] = x /\ \A j \in 1..(i - 1) : s[j] # x
                 ELSE 0

RemoveAt(s, i) == SubSeq(s, 1, i - 1) \o SubSeq(s, i + 1, Len(s))

InsertAt(s, i, x) == SubSeq(s, 1, i - 1) \o <<x>> \o SubSeq(s, i, Len(s))

Perms(S) == {p \in [1..Cardinality(S) -> S] : \A i, j \in DOMAIN p : i # j => p[i] # p[j]}

----------------------------------------------------------------------------
(* The store: patch_channels with unique(event_id, channel_number) *)

\* select ... order("channel_number", ascending)
RECURSIVE OrderByNumber(_)
OrderByNumber(rows) ==
    IF rows = {} THEN <<>>
    ELSE LET m == CHOOSE p \in rows : \A q \in rows : p.channel_number <= q.channel_number
         IN <<m>> \o OrderByNumber(rows \ {m})

\* the statement update({channel_number: n}).eq("id", id) violates the constraint
Rejected(rows, id, n) ==
    /\ \E p \in rows : p.id = id
    /\ \E q \in rows : q.id # id /\ q.channel_number = n

\* the rows after that statement: a rejected statement changes nothing
UpdateNumber(rows, id, n) ==
    IF Rejected(rows, id, n) THEN rows
    ELSE {IF p.id = id THEN [p EXCEPT !.channel_number = n] ELSE p : p \in rows}

Phase1NumberNoOffset(idx) == idx + 1

\* phase 1 of applyChannelOrder, idx counted from 0
Phase1Number(idx) == idx + TempOffset

Phase2NumberFromZero(idx) == idx

\* phase 2 of applyChannelOrder, idx counted from 0
Phase2Number(idx) == idx + 1

PhaseNumber(phase, idx) == IF phase = 1 THEN Phase1Number(idx) ELSE Phase2Number(idx)

\* one update of a phase arrives at the store: position i of orderedIds
Arrive(o, orderedIds, phase, i) ==
    LET id == orderedIds[i]
        n == PhaseNumber(phase, i - 1)
        rejected == Rejected(o.rows, id, n)
    IN [rows |-> IF rejected THEN o.rows ELSE UpdateNumber(o.rows, id, n),
        rejected |-> o.rejected \/ rejected,
        pending |-> o.pending \ {i}]

\* Promise.all over the updates of one phase: every order of arrival at the
\* store; the results (errors included) are discarded by the caller
RECURSIVE PhaseRuns(_, _, _)
PhaseRuns(runs, orderedIds, phase) ==
    IF \A o \in runs : o.pending = {} THEN runs
    ELSE PhaseRuns(UNION {{Arrive(o, orderedIds, phase, i) : i \in o.pending} : o \in runs},
                   orderedIds, phase)

\* applyChannelOrder as a whole: phase 2 starts from what phase 1 left
applyChannelOrder(rows, orderedIds) ==
    LET start == {[rows |-> rows, rejected |-> FALSE, pending |-> DOMAIN orderedIds]}
        phase1 == PhaseRuns(start, orderedIds, 1)
        phase2 == PhaseRuns({[o EXCEPT !.pending = DOMAIN orderedIds] : o \in phase1}, orderedIds, 2)
    IN {[rows |-> o.rows, rejected |-> o.rejected] : o \in phase2}

----------------------------------------------------------------------------
(* Strings (sequences of characters) *)

Lower(c) == CASE c = "D" -> "d" [] c = "V" -> "v" [] c = "B" -> "b" [] c = "P" -> "p"
             [] c = "G" -> "g" [] c = "K" -> "k" [] c = "O" -> "o" [] c = "F" -> "f"
             [] c = "X" -> "x" [] OTHER -> c

toLowerCase(str) == [i \in DOMAIN str |-> Lower(str[i])]

includes(str, t) == \E i \in 0..(Len(str) - Len(t)) : SubSeq(str, i + 1, i + Len(t)) = t

RECURSIVE trimStart(_)
trimStart(str) == IF str # <<>> /\ Head(str) = " " THEN trimStart(Tail(str)) ELSE str

RECURSIVE trimEnd(_)
trimEnd(str) == IF str # <<>> /\ str[Len(str)] = " " THEN trimEnd(SubSeq(str, 1, Len(str) - 1)) ELSE str

trim(str) == trimEnd(trimStart(str))

NameNeverMissing(name) == FALSE

\* newBandName.trim() === "", bandName.trim() === ""
NameMissing(name) == trim(name) = <<>>

----------------------------------------------------------------------------
(* The catalog: categories and canonical_channels as loadBase reads them *)

categories ==
    << [id |-> 1, name |-> <<"V", "o", "c", "a", "l", "s">>, sort_order |-> 1],
       [id |-> 2, name |-> <<"D", "r", "u", "m", "s">>, sort_order |-> 2] >>

canonicalChannels ==
    << [id |-> 1, name |-> "Lead Vox", default_order |-> 1, category_id |-> 1],
       [id |-> 2, name |-> "Kick In", default_order |-> 1, category_id |-> 2],
       [id |-> 3, name |-> "Snare Top", default_order |-> 2, category_id |-> 2] >>

CanonicalIds == {c.id : c \in Range(canonicalChannels)}

\* canonicalMap.get(cid)?.name ?? null
CanonicalName(cid) ==
    IF cid \in CanonicalIds
    THEN (CHOOSE c \in Range(canonicalChannels) : c.id = cid).name
    ELSE "null"

orderMap ==
    << [tokens |-> {<<"d", "r", "u", "m">>, <<"d", "r", "u", "m", "s">>}, weight |-> 0],
       [tokens |-> {<<"p", "e", "r", "c">>, <<"p", "e", "r", "c", "u", "s", "s", "i", "o", "n">>}, weight |-> 1],
       [tokens |-> {<<"b", "a", "s", "s">>}, weight |-> 2],
       [tokens |-> {<<"g", "u", "i", "t", "a", "r">>, <<"g", "i", "t", "a", "a", "r">>}, weight |-> 3],
       [tokens |-> {<<"k", "e", "y", "s">>, <<"k", "e", "y">>, <<"s", "a", "m", "p", "l", "e">>,
                    <<"s", "a", "m", "p", "l", "e", "s">>}, weight |-> 4],
       [tokens |-> {<<"v", "a", "r", "i", "a">>, <<"o", "t", "h", "e", "r">>,
                    <<"o", "v", "e", "r", "i", "g">>}, weight |-> 5],
       [tokens |-> {<<"v", "o", "x">>, <<"v", "o", "c", "a", "l">>, <<"v", "o", "i", "c", "e">>}, weight |-> 6] >>

\* the weight of the last keyword set that matches
categoryOrderValueLast(name) ==
    LET lower == toLowerCase(name)
        hits == {k \in DOMAIN orderMap : \E t \in orderMap[k].tokens : includes(lower, t)}
    IN IF hits = {} THEN Sentinel
       ELSE orderMap[CHOOSE k \in hits : \A h \in hits : k >= h].weight

categoryOrderValue(name) ==
    LET lower == toLowerCase(name)
        hits == {k \in DOMAIN orderMap : \E t \in orderMap[k].tokens : includes(lower, t)}
    IN IF hits = {} THEN Sentinel
       ELSE orderMap[CHOOSE k \in hits : \A h \in hits : k <= h].weight

\* catOrder.get(category_id) ?? 9999
CatWeight(cats, category_id) ==
    IF \E c \in Range(cats) : c.id = category_id
    THEN categoryOrderValue((CHOOSE c \in Range(cats) : c.id = category_id).name)
    ELSE Sentinel

\* the comparator without the categories
canonicalOrderByDefault(cats, a, b) == a.default_order - b.default_order

\* the comparator: negative when a sorts before b
canonicalOrder(cats, a, b) ==
    LET ca == CatWeight(cats, a.category_id)
        cb == CatWeight(cats, b.category_id)
    IN IF ca # cb THEN ca - cb ELSE a.default_order - b.default_order

\* Array.prototype.sort with canonicalOrder: stable
RECURSIVE SortCanonical(_, _)
SortCanonical(cats, chs) ==
    IF chs = <<>> THEN <<>>
    ELSE LET rest == SortCanonical(cats, Tail(chs))
             x == Head(chs)
             k == Cardinality({i \in DOMAIN rest : canonicalOrder(cats, rest[i], x) < 0})
         IN SubSeq(rest, 1, k) \o <<x>> \o SubSeq(rest, k + 1, Len(rest))

orderedCanonicalChannels == SortCanonical(categories, canonicalChannels)

\* useMemo sortedCategories: [...categories].sort by categoryOrderValue(name), then
\* by sort_order ?? 9999; stable
RECURSIVE sortedCategories(_)
sortedCategories(cats) ==
    IF cats = <<>> THEN <<>>
    ELSE LET rest == sortedCategories(Tail(cats))
             x == Head(cats)
             before(a, b) ==
                LET orderA == categoryOrderValue(a.name)
                    orderB == categoryOrderValue(b.name)
                IN IF orderA # orderB THEN orderA < orderB
                   ELSE (IF a.sort_order = Null THEN Sentinel ELSE a.sort_order)
                        < (IF b.sort_order = Null THEN Sentinel ELSE b.sort_order)
             k == Cardinality({i \in DOMAIN rest : before(rest[i], x)})
         IN SubSeq(rest, 1, k) \o <<x>> \o SubSeq(rest, k + 1, Len(rest))

\* what loadBase put into the state of the page
LoadedCatalog == [categories |-> categories, canonicalChannels |-> canonicalChannels]

----------------------------------------------------------------------------
(* The session before anything is loaded, and the bookkeeping of the model *)

NoSave == [band |-> Null, selection |-> {}, again |-> FALSE, deleted |-> 0, cascaded |-> 0,
           failed |-> "none"]

FormInit ==
    /\ editingBandId = Null
    /\ newBandName = <<>>
    /\ newBandSelection = {}
    /\ bandDirty = FALSE
    /\ error = ""

RunIdle ==
    /\ runPhase = "idle"
    /\ runOrder = <<>>
    /\ runPending = {}
    /\ runStart = {}

NoRun == [phase |-> "idle", order |-> <<>>, pending |-> {}]

\* the browser sessions that have the builder open on the same event
Sessions == {1, 2}

\* savingBand / saving is false and no save awaits the store
NoRuns == [saving |-> FALSE, inFlight |-> <<>>, started |-> 0]

\* no handleAddBand call is followed step by step
NoSaves == [s \in Sessions |-> [phase |-> "idle", list |-> <<>>, canonicalIds |-> <<>>,
                                canonicalToPatch |-> <<>>, band |-> Null]]

\* no timer is pending, no save awaits the store
NoClosure == [set |-> FALSE]

\* the session is on the builder: no timer, no second session, and the state of
\* the other pages as their components are constructed
BuilderOnly ==
    /\ route = "builder"
    /\ saveReachedStore = FALSE
    /\ autoSaveTimerRef = NoClosure
    /\ otherRun = NoRun
    /\ catalog = LoadedCatalog
    /\ saves = NoSaves
    /\ saveRuns = NoRuns
    /\ dbTechlists = {}
    /\ dbTechlistChannels = {}
    /\ channels = {}
    /\ selectedTechlistId = Null
    /\ bandName = <<>>
    /\ bandNotes = <<>>
    /\ selectedChannelIds = {}
    /\ channelOrder = <<>>
    /\ channelDetails = {}
    /\ isDirty = FALSE
    /\ saveRun = NoClosure
    /\ saveMessage = ""

----------------------------------------------------------------------------
(* The builder: reading the event *)

\* select ... order("sort_order", ascending)
RECURSIVE OrderBySortOrder(_)
OrderBySortOrder(rows) ==
    IF rows = {} THEN <<>>
    ELSE LET m == CHOOSE b \in rows : \A c \in rows : b.sort_order <= c.sort_order
         IN <<m>> \o OrderBySortOrder(rows \ {m})

\* loadEventData: the usage rows of the bands read (none when there is no band)
LoadedUsage(bandRows, usageRows) ==
    IF bandRows = {} THEN {}
    ELSE {u \in usageRows : \E b \in bandRows : b.id = u.band_id}

\* loadEventData: the band whose selection becomes the baseline
LastBand(bandRows) == LET sorted == OrderBySortOrder(bandRows) IN sorted[Len(sorted)]

\* loadEventData: baseline = laatste band selectie; the canonical ids checked
Baseline(bandRows, patchRows, usageRows) ==
    IF bandRows = {} THEN {}
    ELSE LET lastBand == LastBand(bandRows)
             usedIds == {u.patch_channel_id : u \in {v \in usageRows : v.band_id = lastBand.id /\ v.is_used}}
         IN {p.canonical_channel_id : p \in
                {q \in patchRows : q.id \in usedIds /\ q.canonical_channel_id # Null}}

\* usedByBand, on the state of the render
usedByBand(bandId) ==
    {patchChannels[i].id : i \in {j \in DOMAIN patchChannels :
        \E u \in usageMap : /\ u.band_id = bandId
                            /\ u.patch_channel_id = patchChannels[j].id
                            /\ u.is_used}}

\* loadBandIntoForm(bandId), bandId not null: the selection put in the form
BandSelection(bandId) ==
    LET used == usedByBand(bandId)
    IN {patchChannels[i].canonical_channel_id : i \in {j \in DOMAIN patchChannels :
            /\ patchChannels[j].id \in used
            /\ patchChannels[j].canonical_channel_id # Null}}

BandIsLoaded(bandId) == \E i \in DOMAIN bands : bands[i].id = bandId

LoadedBand(bandId) == bands[CHOOSE i \in DOMAIN bands : bands[i].id = bandId]

----------------------------------------------------------------------------
(* The builder: the steps of a band save *)

MaxOf(S) == IF S = {} THEN 0 ELSE CHOOSE m \in S : \A x \in S : x <= m

MissingAll(canonicalIds, known) == canonicalIds

\* ensurePatchChannels: missing = canonicalIds.filter((cid) => !map.has(cid))
Missing(canonicalIds, known) ==
    LET IsMissing(c) == c \notin known
    IN SelectSeq(canonicalIds, IsMissing)

NewNumberFromMax(maxNumber, idx) == maxNumber + idx

\* ensurePatchChannels: channel_number of the idx-th missing channel, idx from 0
NewNumber(maxNumber, idx) == maxNumber + idx + 1

KnownNone(list) == {}

\* ensurePatchChannels: the keys of canonicalToPatch after patchChannels.forEach
KnownCanonical(list) == {list[i].canonical_channel_id : i \in DOMAIN list} \ {Null}

\* ensurePatchChannels(canonicalIds) on the patchChannels of a render and the
\* store's rows: the rows afterwards, canonicalToPatch, and whether the insert failed
ensurePatchChannelsFrom(list, rows, nextId, canonicalIds) ==
    LET known == KnownCanonical(list)
        \* canonicalToPatch.set in list order: the last record of a channel wins
        PatchOf(c) == list[CHOOSE i \in DOMAIN list :
                          /\ list[i].canonical_channel_id = c
                          /\ \A j \in DOMAIN list :
                                list[j].canonical_channel_id = c => j <= i]
        canonicalToPatch == [c \in known |-> PatchOf(c)]
        missing == Missing(canonicalIds, known)
        maxNumber == MaxOf({list[i].channel_number : i \in DOMAIN list})
        newRows == [i \in DOMAIN missing |->
                      [id |-> nextId + i - 1,
                       channel_number |-> NewNumber(maxNumber, i - 1),
                       canonical_channel_id |-> missing[i]]]
        insertError == \E i \in DOMAIN newRows : \E q \in rows :
                          q.channel_number = newRows[i].channel_number
    IN IF missing = <<>>
       THEN [rows |-> rows, map |-> canonicalToPatch, nextId |-> nextId,
             insertError |-> FALSE, local |-> list]
       ELSE IF insertError
       THEN [rows |-> rows, map |-> canonicalToPatch, nextId |-> nextId,
             insertError |-> TRUE, local |-> list]
       ELSE [rows |-> rows \cup Range(newRows),
             \* data.forEach(row => canonicalToPatch.set(...)): the created rows are set last
             map |-> [c \in known \cup Range(missing) |->
                        IF c \in Range(missing)
                        THEN newRows[CHOOSE i \in DOMAIN missing : missing[i] = c]
                        ELSE PatchOf(c)],
             nextId |-> nextId + Len(missing),
             insertError |-> FALSE,
             local |-> list \o newRows]

\* ensurePatchChannels(canonicalIds) as the session's render calls it
ensurePatchChannels(rows, nextId, canonicalIds) ==
    ensurePatchChannelsFrom(patchChannels, rows, nextId, canonicalIds)

RemainingReversed(patchData, unusedIds) ==
    LET Kept(p) == p.id \notin unusedIds
        kept == SelectSeq(patchData, Kept)
    IN [i \in DOMAIN kept |-> kept[Len(kept) + 1 - i].id]

\* pruneUnusedPatchChannels: remainingIds, in the order patchData was read
RemainingIds(patchData, unusedIds) ==
    LET Kept(p) == p.id \notin unusedIds
        kept == SelectSeq(patchData, Kept)
    IN [i \in DOMAIN kept |-> kept[i].id]

DeleteOnly(rows, unusedIds, remainingIds) ==
    {[rows |-> {p \in rows : p.id \notin unusedIds}, rejected |-> FALSE]}

\* pruneUnusedPatchChannels after the delete: the renumbering of the survivors
RenumberRemaining(rows, unusedIds, remainingIds) ==
    IF remainingIds # <<>>
    THEN applyChannelOrder({p \in rows : p.id \notin unusedIds}, remainingIds)
    ELSE {[rows |-> {p \in rows : p.id \notin unusedIds}, rejected |-> FALSE]}

UnusedNone(rows, usageRows) == {}

\* pruneUnusedPatchChannels: the records no usage row with is_used refers to
UnusedIds(rows, usageRows) ==
    LET patchIds == {p.id : p \in rows}
        usageData == {u \in usageRows : u.patch_channel_id \in patchIds}
        used == {u.patch_channel_id : u \in {v \in usageData : v.is_used}}
    IN {p.id : p \in {q \in rows : q.id \notin used}}

\* pruneUnusedPatchChannels(eventId): the possible rows of patch_channels afterwards
pruneUnusedPatchChannels(rows, usageRows) ==
    LET patchData == OrderByNumber(rows)
        unusedIds == UnusedIds(rows, usageRows)
    IN IF rows = {} \/ unusedIds = {}
       THEN {[rows |-> rows, rejected |-> FALSE]}
       ELSE RenumberRemaining(rows, unusedIds, RemainingIds(patchData, unusedIds))

KeepReferring(usageRows, unusedIds) == usageRows

\* the store on delete().in("id", unusedIds) when the reference patch_channel_id ->
\* patch_channels.id deletes the referring rows with the records
DeleteReferring(usageRows, unusedIds) ==
    {u \in usageRows : u.patch_channel_id \notin unusedIds}

\* pruneUnusedPatchChannels with the rows of band_channel_usage afterwards.  The
\* notes give the reference and not its delete rule: when a usage row refers to
\* an unused record, the store deletes the row with the record, or it rejects the
\* delete (delError) and the handler returns.
pruneAnswers(rows, usageRows) ==
    LET unusedIds == UnusedIds(rows, usageRows)
        referring == {u \in usageRows : u.patch_channel_id \in unusedIds}
        deleted == {[rows |-> r.rows, rejected |-> r.rejected,
                     usage |-> DeleteReferring(usageRows, unusedIds)] :
                    r \in pruneUnusedPatchChannels(rows, usageRows)}
    IN IF referring = {}
       THEN deleted
       ELSE deleted \cup {[rows |-> rows, rejected |-> FALSE, usage |-> usageRows]}

UsageRowsNotUsed(targetBandId, canonicalIds, canonicalToPatch) ==
    {[band_id |-> targetBandId,
      patch_channel_id |-> canonicalToPatch[cid].id,
      is_used |-> FALSE,
      label |-> CanonicalName(cid)] : cid \in Range(canonicalIds) \cap DOMAIN canonicalToPatch}

\* the rows handleAddBand inserts into band_channel_usage
UsageRows(targetBandId, canonicalIds, canonicalToPatch) ==
    {[band_id |-> targetBandId,
      patch_channel_id |-> canonicalToPatch[cid].id,
      is_used |-> TRUE,
      label |-> CanonicalName(cid)] : cid \in Range(canonicalIds) \cap DOMAIN canonicalToPatch}

\* the insert violates unique(band_id, patch_channel_id) or the foreign key
UsageInsertError(newRows, usageRows, patchRows) ==
    \/ \E r \in newRows : \E u \in usageRows :
          u.band_id = r.band_id /\ u.patch_channel_id = r.patch_channel_id
    \/ \E r \in newRows : \A p \in patchRows : p.id # r.patch_channel_id

----------------------------------------------------------------------------
(* Spec: the handlers of the builder, one session, every store call succeeds *)
(* unless a constraint of the store rejects it                              *)

NameInputs == { <<" ", "A">> }

Init ==
    /\ dbBands = {}
    /\ dbPatch = {}
    /\ dbUsage = {}
    /\ nextPatchId = 1
    /\ bands = <<>>
    /\ patchChannels = <<>>
    /\ usageMap = {}
    /\ FormInit
    /\ RunIdle
    /\ uniqueViolation = FALSE
    /\ lastOp = "load"
    /\ lastSave = NoSave
    /\ BuilderOnly

\* the band selector: "Nieuwe groep…" (null) or a band of the list
loadBandIntoForm(bandId) ==
    /\ IF bandId = Null
       THEN /\ editingBandId' = Null
            /\ newBandName' = <<>>
            /\ newBandSelection' = {}
            /\ bandDirty' = FALSE
       ELSE IF ~BandIsLoaded(bandId)
       THEN UNCHANGED <<editingBandId, newBandName, newBandSelection, bandDirty>>
       ELSE /\ editingBandId' = bandId
            /\ newBandName' = LoadedBand(bandId).name
            /\ newBandSelection' = BandSelection(bandId)
            /\ bandDirty' = FALSE
    /\ lastOp' = (IF bandId = Null THEN "new" ELSE "other")
    /\ lastSave' = NoSave
    /\ uniqueViolation' = FALSE
    /\ UNCHANGED <<dbVars, localVars, runVars, error, pageVars>>

\* the page is opened again on the event: loadBase, loadEventData
Reload ==
    /\ bands' = OrderBySortOrder(dbBands)
    /\ patchChannels' = OrderByNumber(dbPatch)
    /\ usageMap' = LoadedUsage(dbBands, dbUsage)
    /\ editingBandId' = Null
    /\ newBandName' = <<>>
    /\ newBandSelection' = Baseline(dbBands, dbPatch, dbUsage)
    /\ bandDirty' = FALSE
    /\ error' = ""
    /\ lastOp' = "new"
    /\ lastSave' = NoSave
    /\ uniqueViolation' = FALSE
    /\ UNCHANGED <<dbVars, runVars, pageVars>>

\* the persistence steps of a band save that the store can fail
Faults == {"ensure", "band", "usageDelete", "usageInsert", "pruneDelete", "renumber"}

\* a selected channel has no record in the list of the render: ensurePatchChannels
\* issues its insert
InsertIssued(selection) ==
    \E i \in DOMAIN selection : \A j \in DOMAIN patchChannels :
        patchChannels[j].canonical_channel_id # selection[i]

\* handleAddBand({auto: false}) on the form content editingBandId, newBandName and
\* Array.from(newBandSelection), the channels in the order they were checked;
\* fail names the store call that returns an error ("none": every call succeeds
\* unless a constraint of the store rejects it)
handleAddBandWith(editing, nameField, selection, fail) ==
    LET name == trim(nameField)
        canonicalIds == selection
        \* a failed insert returns canonicalToPatch as built from the list of the render
        ens == IF fail = "ensure"
               THEN [ensurePatchChannels(dbPatch, nextPatchId, <<>>) EXCEPT !.insertError = TRUE]
               ELSE ensurePatchChannels(dbPatch, nextPatchId, canonicalIds)
        creating == editing = Null
        targetBandId == IF creating THEN Cardinality(dbBands) + 1 ELSE editing
        bandRows == IF creating
                    THEN dbBands \cup {[id |-> targetBandId, name |-> name,
                                        sort_order |-> Len(bands) + 1]}
                    ELSE {IF b.id = targetBandId THEN [b EXCEPT !.name = name] ELSE b : b \in dbBands}
        usageKept == IF creating THEN dbUsage ELSE {u \in dbUsage : u.band_id # editing}
        usageRows == UsageRows(targetBandId, canonicalIds, ens.map)
        usageError == \/ fail = "usageInsert"
                      \/ UsageInsertError(usageRows, usageKept, ens.rows)
        usageAfter == usageKept \cup usageRows
        unusedIds == UnusedIds(ens.rows, usageAfter)
        prunedRuns == IF fail = "pruneDelete"
                      THEN {[rows |-> ens.rows, rejected |-> FALSE, usage |-> usageAfter]}
                      ELSE IF fail = "renumber"
                      THEN {[rows |-> {p \in ens.rows : p.id \notin unusedIds}, rejected |-> FALSE,
                             usage |-> DeleteReferring(usageAfter, unusedIds)]}
                      ELSE pruneAnswers(ens.rows, usageAfter)
        again == /\ lastOp = "save"
                 /\ lastSave.band = targetBandId
                 /\ lastSave.selection = Range(canonicalIds)
                 /\ \E b \in dbBands : b.id = targetBandId /\ b.name = name
        save == [band |-> targetBandId, selection |-> Range(canonicalIds),
                 again |-> again, deleted |-> 0, cascaded |-> 0, failed |-> fail]
        \* the handler returns after setError: the form and the lists stay
        Stopped(message) ==
            /\ patchChannels' = ens.local
            /\ error' = message
            /\ lastOp' = "saveFailed"
            /\ lastSave' = save
            /\ uniqueViolation' = FALSE
            /\ editingBandId' = editing
            /\ newBandName' = nameField
            /\ newBandSelection' = Range(selection)
            /\ UNCHANGED <<bands, usageMap, bandDirty>>
    IN IF NameMissing(nameField)
       THEN /\ fail = "none"
            /\ error' = "Geef een groepsnaam in."
            /\ lastOp' = "saveRefused"
            /\ lastSave' = NoSave
            /\ uniqueViolation' = FALSE
            /\ editingBandId' = editing
            /\ newBandName' = nameField
            /\ newBandSelection' = Range(selection)
            /\ saveReachedStore' = FALSE
            /\ UNCHANGED <<dbVars, localVars, runVars, bandDirty>>
            /\ UNCHANGED <<route, catalog, saves, otherRun, techVars>>
       ELSE /\ creating => Cardinality(dbBands) < MaxBands
            /\ ens.nextId <= MaxPatchIds + 1
            \* a call can only fail when the handler issues it
            /\ fail = "ensure" => InsertIssued(selection)
            /\ fail = "usageDelete" => ~creating
            /\ fail = "usageInsert" => usageRows # {}
            /\ fail = "pruneDelete" => unusedIds # {}
            /\ fail = "renumber" => unusedIds # {} /\ \E p \in ens.rows : p.id \notin unusedIds
            /\ nextPatchId' = ens.nextId
            /\ saveReachedStore' = TRUE
            /\ UNCHANGED runVars
            /\ UNCHANGED <<route, catalog, saves, otherRun, techVars>>
            /\ IF fail = "band"
               THEN /\ dbBands' = dbBands
                    /\ dbPatch' = ens.rows
                    /\ dbUsage' = dbUsage
                    /\ Stopped("Fout bij opslaan van de groep.")
               ELSE IF fail = "usageDelete"
               THEN /\ dbBands' = bandRows
                    /\ dbPatch' = ens.rows
                    /\ dbUsage' = dbUsage
                    /\ Stopped("Fout bij opslaan van de groep-kanalen.")
               ELSE IF usageError
               THEN \* the save stops at the failed insert
                    /\ dbBands' = bandRows
                    /\ dbPatch' = ens.rows
                    /\ dbUsage' = usageKept
                    /\ Stopped("Fout bij opslaan van de groep-kanalen.")
               ELSE \E pruned \in prunedRuns :
                    /\ dbBands' = bandRows
                    /\ dbPatch' = pruned.rows
                    /\ dbUsage' = pruned.usage
                    /\ uniqueViolation' = pruned.rejected
                    \* the second loadEventData; the first one has cleared the error
                    /\ bands' = OrderBySortOrder(bandRows)
                    /\ patchChannels' = OrderByNumber(pruned.rows)
                    /\ usageMap' = LoadedUsage(bandRows, pruned.usage)
                    /\ error' = ""
                    /\ bandDirty' = FALSE
                    /\ lastOp' = "save"
                    /\ lastSave' = [save EXCEPT !.deleted = Cardinality(ens.rows) - Cardinality(pruned.rows),
                                                !.cascaded = Cardinality(usageAfter) - Cardinality(pruned.usage)]
                    \* loadBandIntoForm runs on the render the handler was created in
                    /\ IF creating \/ ~BandIsLoaded(editing)
                       THEN /\ editingBandId' = targetBandId
                            /\ newBandName' = nameField
                            /\ newBandSelection' = Baseline(bandRows, pruned.rows, pruned.usage)
                       ELSE /\ editingBandId' = editing
                            /\ newBandName' = LoadedBand(editing).name
                            /\ newBandSelection' = BandSelection(editing)

\* handleAddBand from the save button, every store call answered
handleAddBand(editing, nameField, selection) ==
    handleAddBandWith(editing, nameField, selection, "none")

\* every order in which up to MaxSelected channels of the catalog can be checked
SelectionInputs == UNION {Perms(S) : S \in {T \in SUBSET CanonicalIds : Cardinality(T) <= MaxSelected}}

\* The user fills the form and presses the save button.  The selector
\* (loadBandIntoForm), the name field and the checkboxes (toggleNewSelection)
\* change the form only, and every band of the list, every name and every
\* order of checked channels can be set up with them; the button is disabled
\* while the name is empty.
SaveBand(target, nameField, selection) ==
    /\ target # Null => BandIsLoaded(target)
    /\ trim(nameField) # <<>>
    /\ handleAddBand(target, nameField, selection)
    /\ UNCHANGED saveRuns
    /\ UNCHANGED autoSaveTimerRef

\* movePatchChannel / reorderPatchChannel: splice(idx, 1) then splice(targetIdx, 0, item)
SpliceExchange(rows, idx, targetIdx) ==
    [rows EXCEPT ![idx] = rows[targetIdx], ![targetIdx] = rows[idx]]

Splice(rows, idx, targetIdx) == InsertAt(RemoveAt(rows, idx), targetIdx, rows[idx])

\* the tail of movePatchChannel and reorderPatchChannel
ApplyNewOrder(newOrder, op) ==
    \E run \in applyChannelOrder(dbPatch, [i \in DOMAIN newOrder |-> newOrder[i].id]) :
        /\ patchChannels' = [i \in DOMAIN newOrder |-> [newOrder[i] EXCEPT !.channel_number = i]]
        /\ dbPatch' = run.rows
        /\ uniqueViolation' = run.rejected
        /\ lastOp' = op
        /\ lastSave' = NoSave
        /\ UNCHANGED <<dbBands, dbUsage, nextPatchId, bands, usageMap, formVars, runVars, pageVars>>

NoOp(op) ==
    /\ lastOp' = op
    /\ lastSave' = NoSave
    /\ uniqueViolation' = FALSE
    /\ UNCHANGED <<dbVars, localVars, formVars, runVars, pageVars>>

\* moveSelectedChannel / movePatchChannel: const targetIdx = idx + direction
MoveTargetTwice(idx, direction) == idx + 2 * direction

MoveTarget(idx, direction) == idx + direction

movePatchChannel(patchId, direction) ==
    LET rows == OrderByNumber(Range(patchChannels))
        idx == IndexOf([i \in DOMAIN rows |-> rows[i].id], patchId)
        targetIdx == MoveTarget(idx, direction)
    IN IF idx = 0 \/ targetIdx < 1 \/ targetIdx > Len(rows)
       THEN NoOp("other")
       ELSE ApplyNewOrder(Splice(rows, idx, targetIdx), "other")

reorderPatchChannel(dragId, targetId) ==
    LET rows == OrderByNumber(Range(patchChannels))
        ids == [i \in DOMAIN rows |-> rows[i].id]
        dragIdx == IndexOf(ids, dragId)
        targetIdx == IndexOf(ids, targetId)
    IN IF dragId = targetId \/ dragIdx = 0 \/ targetIdx = 0
       THEN NoOp("other")
       ELSE ApplyNewOrder(Splice(rows, dragIdx, targetIdx), "other")

\* the ids of the rows shown, and one id no row has
PatchIdInputs == {patchChannels[i].id : i \in DOMAIN patchChannels} \cup {nextPatchId}

Next ==
    \/ \E b \in 0..MaxBands : loadBandIntoForm(b)
    \/ Reload
    \/ \E b \in 0..MaxBands, name \in NameInputs, sel \in SelectionInputs : SaveBand(b, name, sel)
    \/ \E id \in PatchIdInputs, d \in {-1, 1} : movePatchChannel(id, d)
    \/ \E a \in PatchIdInputs, b \in PatchIdInputs : reorderPatchChannel(a, b)

Spec == Init /\ [][Next]_vars

----------------------------------------------------------------------------
(* SpecFaults: band saves of one session until one store call of a save     *)
(* returns an error; the behaviour ends with the save of the failed call    *)

SaveBandFault(target, nameField, selection, fail) ==
    /\ target # Null => BandIsLoaded(target)
    /\ trim(nameField) # <<>>
    /\ handleAddBandWith(target, nameField, selection, fail)
    /\ UNCHANGED saveRuns
    /\ UNCHANGED autoSaveTimerRef

NoFaultYet == lastSave.failed = "none"

NextFaults ==
    \/ /\ NoFaultYet
       /\ \E b \in 0..MaxBands, name \in NameInputs, sel \in SelectionInputs : SaveBand(b, name, sel)
    \/ /\ NoFaultYet
       /\ \E b \in 0..MaxBands, name \in NameInputs, sel \in SelectionInputs, fail \in Faults :
             SaveBandFault(b, name, sel, fail)

SpecFaults == Init /\ [][NextFaults]_vars

----------------------------------------------------------------------------
(* SpecRenumber: one run of applyChannelOrder, statement by statement.     *)
(* The records hold distinct numbers before the run: ordinary ones, or     *)
(* numbers of the form idx + 1000 that an earlier run wrote in its phase 1 *)
(* and that its phase 2 did not replace.                                   *)

PriorNumbers == (1..MaxNumber) \cup {TempOffset, TempOffset + 1}

InitRenumber ==
    /\ \E n \in 1..MaxRecords :
       \E f \in [1..n -> PriorNumbers] :
          /\ \A i, j \in 1..n : i # j => f[i] # f[j]
          /\ dbPatch = {[id |-> i, channel_number |-> f[i], canonical_channel_id |-> i] : i \in 1..n}
          /\ nextPatchId = n + 1
    /\ dbBands = {}
    /\ dbUsage = {}
    /\ bands = <<>>
    /\ patchChannels = OrderByNumber(dbPatch)
    /\ usageMap = {}
    /\ FormInit
    /\ RunIdle
    /\ uniqueViolation = FALSE
    /\ lastOp = "load"
    /\ lastSave = NoSave
    /\ BuilderOnly

\* applyChannelOrder(orderedIds) is called with the ids of the event's records
StartRun(order) ==
    /\ runPhase = "idle"
    /\ runPhase' = "phase1"
    /\ runOrder' = order
    /\ runPending' = DOMAIN order
    /\ runStart' = dbPatch
    /\ uniqueViolation' = FALSE
    /\ UNCHANGED <<dbVars, localVars, formVars, lastOp, lastSave, pageVars>>

\* one update of the running phase reaches the store
PhaseUpdate(phase, i) ==
    /\ runPhase = (IF phase = 1 THEN "phase1" ELSE "phase2")
    /\ i \in runPending
    /\ dbPatch' = UpdateNumber(dbPatch, runOrder[i], PhaseNumber(phase, i - 1))
    /\ uniqueViolation' = (uniqueViolation \/ Rejected(dbPatch, runOrder[i], PhaseNumber(phase, i - 1)))
    /\ runPending' = runPending \ {i}
    /\ UNCHANGED <<dbBands, dbUsage, nextPatchId, localVars, formVars,
                   runPhase, runOrder, runStart, lastOp, lastSave, pageVars>>

Phase1Update(i) == PhaseUpdate(1, i)

Phase2Update(i) == PhaseUpdate(2, i)

Phase1Unawaited == TRUE

\* await Promise.all(...): every update of the phase has been answered
Phase1Committed == runPending = {}

\* the first await Promise.all resolves: phase 2 is issued
Phase1Done ==
    /\ runPhase = "phase1"
    /\ Phase1Committed
    /\ runPhase' = "phase2"
    /\ runPending' = DOMAIN runOrder
    /\ UNCHANGED <<dbVars, localVars, formVars, runOrder, runStart,
                   uniqueViolation, lastOp, lastSave, pageVars>>

\* the second await Promise.all resolves: applyChannelOrder returns
Phase2Done ==
    /\ runPhase = "phase2"
    /\ runPending = {}
    /\ runPhase' = "done"
    /\ lastOp' = "applyChannelOrder"
    /\ UNCHANGED <<dbVars, localVars, formVars, runOrder, runPending, runStart,
                   uniqueViolation, lastSave, pageVars>>

NextRenumber ==
    \/ \E order \in Perms({p.id : p \in dbPatch}) : StartRun(order)
    \/ \E i \in 1..(MaxRecords + 1) : Phase1Update(i)
    \/ Phase1Done
    \/ \E i \in 1..(MaxRecords + 1) : Phase2Update(i)
    \/ Phase2Done

SpecRenumber == InitRenumber /\ [][NextRenumber]_vars

----------------------------------------------------------------------------
(* The techlist page (src/app/techlist/page.tsx): the selection, its order, *)
(* the auto-save timer and the save of a techlist                           *)

MaxTechlists == 1       \* techlists the store creates in one behaviour
MaxStale == 1           \* edits counted after the render that set the pending timer
MaxPageIds == 6         \* patch_channels rows the patch page creates in one behaviour

\* what the handlers of the techlist and of the patch page never touch
builderVars == <<dbVars, localVars, editingBandId, newBandName, newBandSelection, bandDirty,
                 runVars, uniqueViolation, lastOp, lastSave>>

\* the catalog sorted with canonicalOrder, as ids
orderedCanonicalIds == [i \in DOMAIN orderedCanonicalChannels |-> orderedCanonicalChannels[i].id]

\* the whole catalog, whatever was loaded
orderedAll(active) == orderedCanonicalIds

\* useMemo orderedChannels: [...channels].sort(canonicalOrder), as ids.  The sort is
\* stable and canonicalOrder compares two channels the same way whatever else is
\* in the list, so the sorted active channels are the active part of the sorted catalog.
orderedChannels(active) == SelectSeq(orderedCanonicalIds, LAMBDA id : id \in active)

\* canonicalIndexMap.get(id) ?? 9999, the map built from orderedChannels
canonicalIndexMap(ordered, id) ==
    IF IndexOf(ordered, id) = 0 THEN Sentinel ELSE IndexOf(ordered, id) - 1

\* orderIndex.get(id): the index forEach set last, -1 for undefined
orderIndex(order, id) ==
    IF \E i \in DOMAIN order : order[i] = id
    THEN (CHOOSE i \in DOMAIN order : order[i] = id /\ \A j \in DOMAIN order : order[j] = id => j <= i) - 1
    ELSE -1

\* a selected channel without a position sorts before those with one
compareCatalogFirst(ordered, order, a, b) ==
    LET oa == orderIndex(order, a)
        ob == orderIndex(order, b)
    IN IF oa # -1 /\ ob # -1 THEN oa - ob
       ELSE IF oa # -1 THEN 1
       ELSE IF ob # -1 THEN -1
       ELSE canonicalIndexMap(ordered, a) - canonicalIndexMap(ordered, b)

\* the comparator of selectedChannelsSorted: negative when a sorts before b
compareSelected(ordered, order, a, b) ==
    LET oa == orderIndex(order, a)
        ob == orderIndex(order, b)
    IN IF oa # -1 /\ ob # -1 THEN oa - ob
       ELSE IF oa # -1 THEN -1
       ELSE IF ob # -1 THEN 1
       ELSE canonicalIndexMap(ordered, a) - canonicalIndexMap(ordered, b)

\* Array.prototype.sort with that comparator: stable
RECURSIVE SortSelected(_, _, _)
SortSelected(ids, ordered, order) ==
    IF ids = <<>> THEN <<>>
    ELSE LET rest == SortSelected(Tail(ids), ordered, order)
             x == Head(ids)
             k == Cardinality({i \in DOMAIN rest : compareSelected(ordered, order, rest[i], x) < 0})
         IN SubSeq(rest, 1, k) \o <<x>> \o SubSeq(rest, k + 1, Len(rest))

\* useMemo selectedChannelsSorted, as ids
selectedChannelsSorted(active, selected, order) ==
    LET ordered == orderedChannels(active)
    IN SortSelected(SelectSeq(ordered, LAMBDA id : id \in selected), ordered, order)

\* what handleSaveTechlist reads from the render it was created in
SaveClosure(techlistId, name, notes, rows, details) ==
    [set |-> TRUE, since |-> 0, techlistId |-> techlistId, name |-> name, notes |-> notes,
     rows |-> rows, details |-> details]

\* the timer was set before the render and the effect did not run again: it goes
\* on counting from the render that set it (since: the edits made after that render)
StillPending(timer) ==
    IF timer.set /\ timer.since < MaxStale THEN [timer EXCEPT !.since = @ + 1] ELSE timer

\* the auto-save effect after the render that follows a handler; recomputed: the
\* handler set selectedChannelIds or channelOrder, so the memo is a new array.
\* The cleanup of the previous run clears its timer whenever a dependency changed.
autoSaveEffect(recomputed) ==
    LET sorted == selectedChannelsSorted(channels', selectedChannelIds', channelOrder')
    IN autoSaveTimerRef' =
          IF recomputed \/ isDirty' # isDirty \/ bandName' # bandName
          THEN IF isDirty' /\ trim(bandName') # <<>> /\ sorted # <<>>
               THEN SaveClosure(selectedTechlistId', bandName', bandNotes', sorted, channelDetails')
               ELSE NoClosure
          ELSE StillPending(autoSaveTimerRef)

\* the checkbox of a channel of the catalog: the update of selectedChannelIds
toggledSelection(prev, id) == IF id \in prev THEN prev \ {id} ELSE prev \cup {id}

\* the update of channelOrder in toggleChannel
toggledOrder(prev, id) ==
    IF IndexOf(prev, id) # 0
    THEN SelectSeq(prev, LAMBDA item : item # id)
    ELSE Append(prev, id)

toggleChannel(id) ==
    /\ selectedChannelIds' = toggledSelection(selectedChannelIds, id)
    /\ channelOrder' = toggledOrder(channelOrder, id)
    /\ isDirty' = TRUE
    /\ UNCHANGED <<builderVars, sessionVars, saveReachedStore, otherRun, error, dbTechlists,
                   dbTechlistChannels, channels, selectedTechlistId, bandName, bandNotes,
                   channelDetails, saveRun, saveMessage>>
    /\ autoSaveEffect(TRUE)

\* setChannelOrder(next); setIsDirty(true)
SetChannelOrder(next) ==
    /\ channelOrder' = next
    /\ isDirty' = TRUE
    /\ UNCHANGED <<builderVars, sessionVars, saveReachedStore, otherRun, error, dbTechlists,
                   dbTechlistChannels, channels, selectedTechlistId, bandName, bandNotes,
                   selectedChannelIds, channelDetails, saveRun, saveMessage>>
    /\ autoSaveEffect(TRUE)

moveSelectedChannel(channelId, direction) ==
    LET currentOrder == selectedChannelsSorted(channels, selectedChannelIds, channelOrder)
        idx == IndexOf(currentOrder, channelId)
        targetIdx == MoveTarget(idx, direction)
    IN IF idx = 0 \/ targetIdx < 1 \/ targetIdx > Len(currentOrder)
       THEN UNCHANGED vars
       ELSE SetChannelOrder(Splice(currentOrder, idx, targetIdx))

\* the drop of a dragged row on a row of the selection; dragId is null when
\* nothing was dragged
reorderChannels(dragId, targetId) ==
    LET currentOrder == selectedChannelsSorted(channels, selectedChannelIds, channelOrder)
        dragIdx == IndexOf(currentOrder, dragId)
        targetIdx == IndexOf(currentOrder, targetId)
    IN IF dragId = Null \/ dragId = targetId \/ dragIdx = 0 \/ targetIdx = 0
       THEN UNCHANGED vars
       ELSE SetChannelOrder(Splice(currentOrder, dragIdx, targetIdx))

\* the name field: setBandName(e.target.value); setIsDirty(true)
setBandName(name) ==
    /\ name # bandName
    /\ bandName' = name
    /\ isDirty' = TRUE
    /\ UNCHANGED <<builderVars, sessionVars, saveReachedStore, otherRun, error, dbTechlists,
                   dbTechlistChannels, channels, selectedTechlistId, bandNotes,
                   selectedChannelIds, channelOrder, channelDetails, saveRun, saveMessage>>
    /\ autoSaveEffect(FALSE)

\* the notes field: setBandNotes(e.target.value); setIsDirty(true)
setBandNotes(notes) ==
    /\ notes # bandNotes
    /\ bandNotes' = notes
    /\ isDirty' = TRUE
    /\ UNCHANGED <<builderVars, sessionVars, saveReachedStore, otherRun, error, dbTechlists,
                   dbTechlistChannels, channels, selectedTechlistId, bandName,
                   selectedChannelIds, channelOrder, channelDetails, saveRun, saveMessage>>
    /\ autoSaveEffect(FALSE)

\* a field of a selected channel's row (label, mic/DI, stand, notes) is typed or cleared
setChannelDetails(id) ==
    /\ IndexOf(selectedChannelsSorted(channels, selectedChannelIds, channelOrder), id) # 0
    /\ channelDetails' = (IF id \in channelDetails THEN channelDetails \ {id}
                           ELSE channelDetails \cup {id})
    /\ isDirty' = TRUE
    /\ UNCHANGED <<builderVars, sessionVars, saveReachedStore, otherRun, error, dbTechlists,
                   dbTechlistChannels, channels, selectedTechlistId, bandName, bandNotes,
                   selectedChannelIds, channelOrder, saveRun, saveMessage>>
    /\ autoSaveEffect(FALSE)

\* selectedChannelsSorted.length === 0
NoChannels(rows) == Len(rows) = 0

\* handleSaveTechlist up to its first await, on the render content c; one save
\* awaits the store at a time
SaveRequested(isAuto, c) ==
    /\ saveRun = NoClosure
    /\ IF NameMissing(c.name) \/ NoChannels(c.rows)
       THEN /\ error' = (IF isAuto THEN error
                         ELSE IF NameMissing(c.name) THEN "Geef een groepsnaam in."
                         ELSE "Selecteer minstens één kanaal.")
            /\ saveReachedStore' = FALSE
            /\ saveRun' = saveRun
       ELSE /\ c.techlistId = Null => Cardinality(dbTechlists) < MaxTechlists
            /\ error' = (IF isAuto THEN error ELSE "")
            /\ saveReachedStore' = TRUE
            /\ saveRun' = c
    /\ UNCHANGED <<builderVars, sessionVars, otherRun, dbTechlists, dbTechlistChannels, channels,
                   selectedTechlistId, bandName, bandNotes, selectedChannelIds, channelOrder,
                   channelDetails, isDirty, saveMessage>>

\* the save button
handleSaveTechlist ==
    /\ SaveRequested(FALSE, SaveClosure(selectedTechlistId, bandName, bandNotes,
                        selectedChannelsSorted(channels, selectedChannelIds, channelOrder),
                        channelDetails))
    /\ UNCHANGED autoSaveTimerRef

\* the timer of the auto-save effect expires: handleSaveTechlist({auto: true}) of
\* the render that set it
AutoSaveFires ==
    /\ autoSaveTimerRef.set
    /\ SaveRequested(TRUE, autoSaveTimerRef)
    /\ autoSaveTimerRef' = NoClosure

\* the rest of handleSaveTechlist: the store answers every call
SaveAnswered ==
    /\ saveRun.set
    /\ LET c == saveRun
           creating == c.techlistId = Null
           techlistId == IF creating THEN Cardinality(dbTechlists) + 1 ELSE c.techlistId
           record == [id |-> techlistId, name |-> trim(c.name), notes |-> trim(c.notes)]
           rows == {[techlist_id |-> techlistId, channel_number |-> idx,
                     canonical_channel_id |-> c.rows[idx],
                     details |-> c.rows[idx] \in c.details] : idx \in DOMAIN c.rows}
       IN /\ dbTechlists' = {t \in dbTechlists : t.id # techlistId} \cup {record}
          /\ dbTechlistChannels' = {r \in dbTechlistChannels : r.techlist_id # techlistId} \cup rows
          /\ selectedTechlistId' = (IF creating THEN techlistId ELSE selectedTechlistId)
          /\ channelOrder' = (IF creating THEN c.rows ELSE channelOrder)
          /\ isDirty' = FALSE
          /\ saveRun' = NoClosure
          /\ UNCHANGED <<builderVars, sessionVars, saveReachedStore, otherRun, error, channels,
                         bandName, bandNotes, selectedChannelIds, channelDetails, saveMessage>>
          /\ autoSaveEffect(creating)

\* select ... .eq("techlist_id", id).order("channel_number"), then the sort of loadTechlist
RECURSIVE TechlistRows(_)
TechlistRows(rows) ==
    IF rows = {} THEN <<>>
    ELSE LET m == CHOOSE r \in rows : \A q \in rows : r.channel_number <= q.channel_number
         IN <<m>> \o TechlistRows(rows \ {m})

\* the selector: a techlist of the list
loadTechlist(id) ==
    /\ \E t \in dbTechlists : t.id = id
    /\ LET t == CHOOSE t \in dbTechlists : t.id = id
           chData == TechlistRows({r \in dbTechlistChannels : r.techlist_id = id})
           ids == [i \in DOMAIN chData |-> chData[i].canonical_channel_id]
       IN /\ selectedTechlistId' = id
          /\ bandName' = t.name
          /\ bandNotes' = t.notes
          /\ selectedChannelIds' = Range(ids)
          /\ channelOrder' = ids
          /\ channelDetails' = {r.canonical_channel_id : r \in {q \in Range(chData) : q.details}}
    /\ isDirty' = FALSE
    /\ error' = ""
    /\ autoSaveTimerRef' = NoClosure
    /\ UNCHANGED <<builderVars, sessionVars, saveReachedStore, otherRun, dbTechlists,
                   dbTechlistChannels, channels, saveRun, saveMessage>>

\* the selector: "Nieuwe techlist" (the empty option)
clearTechlist ==
    /\ selectedTechlistId' = Null
    /\ bandName' = <<>>
    /\ bandNotes' = <<>>
    /\ selectedChannelIds' = {}
    /\ channelOrder' = <<>>
    /\ channelDetails' = {}
    /\ UNCHANGED <<builderVars, sessionVars, saveReachedStore, otherRun, error, dbTechlists,
                   dbTechlistChannels, channels, isDirty, saveRun, saveMessage>>
    /\ autoSaveEffect(TRUE)

----------------------------------------------------------------------------
(* The patch page (src/app/festival/patch/page.tsx) *)

\* categoryOrderMap.get(category_id) ?? 9999
categoryOrderMap(category_id) ==
    IF \E c \in Range(categories) : c.id = category_id
    THEN (CHOOSE c \in Range(categories) : c.id = category_id).sort_order
    ELSE Sentinel

\* the comparator of the builder and of the techlist page
compareAsBuilder(a, b) == canonicalOrder(categories, a, b)

\* the comparator of the patch page: category sort_order, then default_order
comparePatchPage(a, b) ==
    IF categoryOrderMap(a.category_id) # categoryOrderMap(b.category_id)
    THEN categoryOrderMap(a.category_id) - categoryOrderMap(b.category_id)
    ELSE a.default_order - b.default_order

RECURSIVE SortPatchPage(_)
SortPatchPage(chs) ==
    IF chs = <<>> THEN <<>>
    ELSE LET rest == SortPatchPage(Tail(chs))
             x == Head(chs)
             k == Cardinality({i \in DOMAIN rest : comparePatchPage(rest[i], x) < 0})
         IN SubSeq(rest, 1, k) \o <<x>> \o SubSeq(rest, k + 1, Len(rest))

\* the checkbox of a channel on the patch page
toggleChannelPatch(id) ==
    /\ selectedChannelIds' = (IF id \in selectedChannelIds
                               THEN selectedChannelIds \ {id}
                               ELSE selectedChannelIds \cup {id})
    /\ UNCHANGED <<builderVars, sessionVars, saveReachedStore, autoSaveTimerRef, otherRun, error,
                   dbTechlists, dbTechlistChannels, channels, selectedTechlistId, bandName,
                   bandNotes, channelOrder, channelDetails, isDirty, saveRun, saveMessage>>

\* handleSavePatch: the patch of the event is replaced by the selection
handleSavePatch ==
    LET sorted == SortPatchPage(SelectSeq(canonicalChannels,
                      LAMBDA ch : ch.id \in channels /\ ch.id \in selectedChannelIds))
        rows == {[id |-> nextPatchId + index - 1, channel_number |-> index,
                  canonical_channel_id |-> sorted[index].id] : index \in DOMAIN sorted}
    IN /\ IF Cardinality(selectedChannelIds) = 0
          THEN /\ saveMessage' = "Geen kanalen geselecteerd om op te slaan."
               /\ saveReachedStore' = FALSE
               /\ UNCHANGED dbVars
          ELSE /\ nextPatchId + Len(sorted) <= MaxPageIds + 1
               /\ dbPatch' = rows
               /\ nextPatchId' = nextPatchId + Len(sorted)
               /\ saveMessage' = "Festivalpatch opgeslagen."
               /\ saveReachedStore' = TRUE
               /\ UNCHANGED <<dbBands, dbUsage>>
       /\ UNCHANGED <<localVars, formVars, runVars, uniqueViolation, lastOp, lastSave, sessionVars,
                      autoSaveTimerRef, otherRun, techVarsButMessage>>

----------------------------------------------------------------------------
(* SpecValidation: save requests on each of the three pages, with and      *)
(* without the required name and channels; on the techlist the user waits   *)
(* for the store's answer before the next edit                              *)

\* the state of the three components as constructed, on an empty store
PageIdle ==
    /\ dbBands = {}
    /\ dbPatch = {}
    /\ dbUsage = {}
    /\ nextPatchId = 1
    /\ bands = <<>>
    /\ patchChannels = <<>>
    /\ usageMap = {}
    /\ FormInit
    /\ RunIdle
    /\ uniqueViolation = FALSE
    /\ lastOp = "load"
    /\ lastSave = NoSave
    /\ saveReachedStore = FALSE
    /\ autoSaveTimerRef = NoClosure
    /\ otherRun = NoRun
    /\ selectedTechlistId = Null
    /\ bandName = <<>>
    /\ bandNotes = <<>>
    /\ selectedChannelIds = {}
    /\ channelOrder = <<>>
    /\ channelDetails = {}
    /\ isDirty = FALSE
    /\ saveRun = NoClosure
    /\ saveMessage = ""

\* a techlist saved by an earlier session, with Kick In before Lead Vox
SavedTechlist == <<2, 1>>

\* the techlist page is opened: the store is empty or holds the techlist saved
\* earlier, and every channel is active or Kick In was deactivated since
InitTechlist ==
    /\ PageIdle
    /\ catalog = LoadedCatalog
    /\ saves = NoSaves
    /\ saveRuns = NoRuns
    /\ route = "techlist"
    /\ \E inactive \in {{}, {2}} : channels = CanonicalIds \ inactive
    /\ \E saved \in {<<>>, SavedTechlist} :
          /\ dbTechlists = (IF saved = <<>> THEN {} ELSE {[id |-> 1, name |-> <<"A">>, notes |-> <<>>]})
          /\ dbTechlistChannels = {[techlist_id |-> 1, channel_number |-> idx,
                                    canonical_channel_id |-> saved[idx], details |-> FALSE] :
                                   idx \in DOMAIN saved}

InitBuilderPage ==
    /\ PageIdle
    /\ catalog = LoadedCatalog
    /\ saves = NoSaves
    /\ saveRuns = NoRuns
    /\ route = "builder"
    /\ channels = {}
    /\ dbTechlists = {}
    /\ dbTechlistChannels = {}

InitPatchPage ==
    /\ PageIdle
    /\ catalog = LoadedCatalog
    /\ saves = NoSaves
    /\ saveRuns = NoRuns
    /\ route = "patch"
    /\ channels = CanonicalIds
    /\ dbTechlists = {}
    /\ dbTechlistChannels = {}

BlankNames == { <<>>, <<" ">> }

TechNameInputs == { <<" ">>, <<"A">> }

SelectionNameInputs == { <<"A">> }

\* handleAddBand is called on a loaded band or on a new one, whatever the name field holds
RequestBandSave(target, nameField, selection) ==
    /\ route = "builder"
    /\ target # Null => BandIsLoaded(target)
    /\ handleAddBand(target, nameField, selection)
    /\ UNCHANGED saveRuns
    /\ UNCHANGED autoSaveTimerRef

InitValidation == InitBuilderPage \/ InitTechlist \/ InitPatchPage

NextValidation ==
    \/ \E b \in 0..MaxBands, name \in NameInputs \cup BlankNames, sel \in SelectionInputs :
          RequestBandSave(b, name, sel)
    \/ route = "techlist" /\ ~saveRun.set /\ \E id \in channels : toggleChannel(id)
    \/ route = "techlist" /\ ~saveRun.set /\ \E name \in TechNameInputs : setBandName(name)
    \/ route = "techlist" /\ handleSaveTechlist
    \/ route = "techlist" /\ AutoSaveFires
    \/ route = "techlist" /\ SaveAnswered
    \/ route = "techlist" /\ ~saveRun.set /\ \E id \in 1..MaxTechlists : loadTechlist(id)
    \/ route = "techlist" /\ ~saveRun.set /\ clearTechlist
    \/ route = "patch" /\ \E id \in channels : toggleChannelPatch(id)
    \/ route = "patch" /\ handleSavePatch

SpecValidation == InitValidation /\ [][NextValidation]_vars

----------------------------------------------------------------------------
(* SpecTwoRuns: applyChannelOrder of two sessions on the same event, each  *)
(* with the ordering of its own list, their updates interleaved            *)

MaxShared == 2          \* SpecTwoRuns: records of the event

\* both sessions have loaded the event; its records hold 1..n
InitTwoRuns ==
    /\ \E n \in 2..MaxShared :
          /\ dbPatch = {[id |-> i, channel_number |-> i, canonical_channel_id |-> i] : i \in 1..n}
          /\ nextPatchId = n + 1
    /\ dbBands = {}
    /\ dbUsage = {}
    /\ bands = <<>>
    /\ patchChannels = OrderByNumber(dbPatch)
    /\ usageMap = {}
    /\ FormInit
    /\ RunIdle
    /\ uniqueViolation = FALSE
    /\ lastOp = "load"
    /\ lastSave = NoSave
    /\ BuilderOnly

\* the second session calls applyChannelOrder(orderedIds)
OtherStart(order) ==
    /\ otherRun.phase = "idle"
    /\ otherRun' = [phase |-> "phase1", order |-> order, pending |-> DOMAIN order]
    /\ UNCHANGED <<dbVars, localVars, formVars, runVars, uniqueViolation, lastOp, lastSave,
                   sessionVars, saveReachedStore, autoSaveTimerRef, techVars>>

\* one update of the second session's running phase reaches the store
OtherUpdate(i) ==
    LET phase == IF otherRun.phase = "phase1" THEN 1 ELSE 2
        id == otherRun.order[i]
    IN /\ otherRun.phase \in {"phase1", "phase2"}
       /\ i \in otherRun.pending
       /\ dbPatch' = UpdateNumber(dbPatch, id, PhaseNumber(phase, i - 1))
       /\ uniqueViolation' = (uniqueViolation \/ Rejected(dbPatch, id, PhaseNumber(phase, i - 1)))
       /\ otherRun' = [otherRun EXCEPT !.pending = otherRun.pending \ {i}]
       /\ UNCHANGED <<dbBands, dbUsage, nextPatchId, localVars, formVars, runVars, lastOp,
                      lastSave, sessionVars, saveReachedStore, autoSaveTimerRef, techVars>>

\* an await Promise.all of the second session resolves
OtherAwaited ==
    /\ otherRun.phase \in {"phase1", "phase2"}
    /\ otherRun.pending = {}
    /\ otherRun' = (IF otherRun.phase = "phase1"
                    THEN [otherRun EXCEPT !.phase = "phase2", !.pending = DOMAIN otherRun.order]
                    ELSE [otherRun EXCEPT !.phase = "done"])
    /\ UNCHANGED <<dbVars, localVars, formVars, runVars, uniqueViolation, lastOp, lastSave,
                   sessionVars, saveReachedStore, autoSaveTimerRef, techVars>>

NextTwoRuns ==
    \/ \E order \in Perms({p.id : p \in dbPatch}) : StartRun(order)
    \/ \E i \in 1..MaxShared : Phase1Update(i)
    \/ Phase1Done
    \/ \E i \in 1..MaxShared : Phase2Update(i)
    \/ Phase2Done
    \/ \E order \in Perms({p.id : p \in dbPatch}) : OtherStart(order)
    \/ \E i \in 1..MaxShared : OtherUpdate(i)
    \/ OtherAwaited

SpecTwoRuns == InitTwoRuns /\ [][NextTwoRuns]_vars

----------------------------------------------------------------------------
(* SpecAutosave: the edits of a form and its auto-save timer, on the        *)
(* builder (bandAutoTimerRef) and on the techlist (autoSaveTimerRef); the   *)
(* user waits for the store's answer before the next edit                   *)

\* what handleAddBand reads from the render it was created in
BandClosure(editing, name, selection) ==
    [set |-> TRUE, since |-> 0, editing |-> editing, name |-> name, selection |-> selection]

\* the timer the builder's auto-save effect leaves after a render whose
\* dependencies (editingBandId, bandDirty, savingBand, newBandName) changed
BandTimer ==
    IF editingBandId' # Null /\ bandDirty' /\ ~NameMissing(newBandName')
    THEN BandClosure(editingBandId', newBandName', newBandSelection')
    ELSE NoClosure

\* the builder's auto-save effect after the render that follows an edit
bandAutoSaveEffect ==
    autoSaveTimerRef' =
       IF bandDirty' # bandDirty \/ newBandName' # newBandName
       THEN BandTimer
       ELSE StillPending(autoSaveTimerRef)

\* the name field of the builder
setNewBandName(name) ==
    /\ name # newBandName
    /\ newBandName' = name
    /\ bandDirty' = (bandDirty \/ editingBandId # Null)
    /\ lastOp' = "other"
    /\ lastSave' = NoSave
    /\ uniqueViolation' = FALSE
    /\ UNCHANGED <<dbVars, localVars, runVars, editingBandId, newBandSelection, error,
                   sessionVars, saveReachedStore, otherRun, techVars>>
    /\ bandAutoSaveEffect

\* the checkbox of a channel in the band form
toggleNewSelection(canonicalId) ==
    /\ newBandSelection' = (IF canonicalId \in newBandSelection
                             THEN newBandSelection \ {canonicalId}
                             ELSE newBandSelection \cup {canonicalId})
    /\ bandDirty' = (bandDirty \/ editingBandId # Null)
    /\ lastOp' = "other"
    /\ lastSave' = NoSave
    /\ uniqueViolation' = FALSE
    /\ UNCHANGED <<dbVars, localVars, runVars, editingBandId, newBandName, error,
                   sessionVars, saveReachedStore, otherRun, techVars>>
    /\ bandAutoSaveEffect

\* the save button of the builder on the form as it is; savingBand clears the timer
SaveBandForm ==
    /\ ~NameMissing(newBandName)
    /\ \E selection \in Perms(newBandSelection) :
          handleAddBand(editingBandId, newBandName, selection)
    /\ UNCHANGED saveRuns
    /\ autoSaveTimerRef' = BandTimer

\* the timer of the builder expires: handleAddBand({auto: true}) of the render
\* that set it
BandAutoSaveFires ==
    /\ autoSaveTimerRef.set
    /\ \E selection \in Perms(autoSaveTimerRef.selection) :
          handleAddBand(autoSaveTimerRef.editing, autoSaveTimerRef.name, selection)
    /\ UNCHANGED saveRuns
    /\ autoSaveTimerRef' =
          (IF bandDirty' # bandDirty \/ newBandName' # newBandName THEN BandTimer ELSE NoClosure)

BandNameInputs == { <<"A">>, <<"B">> }

NotesInputs == { <<>>, <<"n">> }

\* the techlist page is opened on an empty store; Snare Top is not active
InitTechlistNew ==
    /\ PageIdle
    /\ catalog = LoadedCatalog
    /\ saves = NoSaves
    /\ saveRuns = NoRuns
    /\ route = "techlist"
    /\ channels = CanonicalIds \ {3}
    /\ dbTechlists = {}
    /\ dbTechlistChannels = {}

InitAutosave == InitBuilderPage \/ InitTechlistNew

NextAutosave ==
    \/ route = "builder" /\ \E name \in BandNameInputs : setNewBandName(name)
    \/ route = "builder" /\ \E id \in CanonicalIds : toggleNewSelection(id)
    \/ route = "builder" /\ SaveBandForm
    \/ route = "builder" /\ BandAutoSaveFires
    \/ route = "techlist" /\ ~saveRun.set /\ \E name \in BandNameInputs : setBandName(name)
    \/ route = "techlist" /\ ~saveRun.set /\ \E notes \in NotesInputs : setBandNotes(notes)
    \/ route = "techlist" /\ ~saveRun.set /\ \E id \in channels : toggleChannel(id)
    \/ route = "techlist" /\ ~saveRun.set /\ \E id \in channels : setChannelDetails(id)
    \/ route = "techlist" /\ AutoSaveFires
    \/ route = "techlist" /\ SaveAnswered

SpecAutosave == InitAutosave /\ [][NextAutosave]_vars

----------------------------------------------------------------------------
(* SpecSelection: the ordered selection of the techlist (toggle, move, drag *)
(* reorder, load, save by the button; edits go on while a save awaits the   *)
(* store) and the patch list of the builder (move, drag reorder)            *)

\* the builder is opened on an event whose records hold 1..n
InitPatchList ==
    /\ \E n \in 1..MaxRecords :
          /\ dbPatch = {[id |-> i, channel_number |-> i, canonical_channel_id |-> i] : i \in 1..n}
          /\ nextPatchId = n + 1
    /\ dbBands = {}
    /\ dbUsage = {}
    /\ bands = <<>>
    /\ patchChannels = OrderByNumber(dbPatch)
    /\ usageMap = {}
    /\ FormInit
    /\ RunIdle
    /\ uniqueViolation = FALSE
    /\ lastOp = "load"
    /\ lastSave = NoSave
    /\ BuilderOnly

\* the rows of the selection a row can be dragged from and dropped on, and null
DragInputs == CanonicalIds \cup {Null}

InitSelection == InitTechlist \/ InitPatchList

NextSelection ==
    \/ route = "techlist" /\ \E id \in channels : toggleChannel(id)
    \/ route = "techlist" /\ \E id \in CanonicalIds, d \in {-1, 1} : moveSelectedChannel(id, d)
    \/ route = "techlist" /\ \E a \in DragInputs, b \in CanonicalIds : reorderChannels(a, b)
    \/ route = "techlist" /\ ~saveRun.set /\ \E name \in SelectionNameInputs : setBandName(name)
    \/ route = "techlist" /\ handleSaveTechlist
    \/ route = "techlist" /\ SaveAnswered
    \/ route = "techlist" /\ ~saveRun.set /\ \E id \in 1..MaxTechlists : loadTechlist(id)
    \/ route = "builder" /\ \E id \in PatchIdInputs, d \in {-1, 1} : movePatchChannel(id, d)
    \/ route = "builder" /\ \E a \in PatchIdInputs, b \in PatchIdInputs : reorderPatchChannel(a, b)

SpecSelection == InitSelection /\ [][NextSelection]_vars

----------------------------------------------------------------------------
(* SpecUnknownIds: toggleChannel, moveSelectedChannel and reorderChannels  *)
(* called with every id, also with ids that are not in the loaded catalog  *)
(* or not in the selection                                                 *)

\* the ids the loaded catalog does not hold (channels that are not active)
UnknownIds == CanonicalIds \ channels

NextUnknownIds ==
    \/ \E id \in channels : toggleChannel(id)
    \/ \E id \in UnknownIds : toggleChannel(id)
    \/ \E id \in CanonicalIds, d \in {-1, 1} : moveSelectedChannel(id, d)
    \/ \E a \in DragInputs, b \in CanonicalIds : reorderChannels(a, b)
    \/ \E id \in 1..MaxTechlists : loadTechlist(id)

SpecUnknownIds == InitTechlist /\ [][NextUnknownIds]_vars

----------------------------------------------------------------------------
(* SpecCatalog: the order of the catalog (canonicalOrder, orderedCanonicalChannels, *)
(* sortedCategories) for the categories loadBase can read and the channels  *)
(* handleAddChannel can add                                                 *)

MaxCategories == 2      \* categories loadBase reads
MaxCatalogChannels == 3 \* canonical channels in the state of the page
MaxSortOrder == 2       \* sort_order of a category, default_order typed for a new channel

\* names of categories: one per keyword set, two that match two sets, one that matches none
CategoryNames ==
    { <<"D", "r", "u", "m", "s">>,
      <<"P", "e", "r", "c">>,
      <<"B", "a", "s", "s">>,
      <<"G", "u", "i", "t", "a", "r">>,
      <<"K", "e", "y", "s">>,
      <<"O", "t", "h", "e", "r">>,
      <<"V", "o", "x">>,
      <<"B", "a", "s", "s", " ", "D", "r", "u", "m">>,
      <<"V", "o", "x", " ", "K", "e", "y", "s">>,
      <<"F", "X">> }

\* categories as the store returns them: order("sort_order", ascending)
CategoryLists ==
    UNION { { [i \in 1..n |-> [id |-> i, name |-> names[i], sort_order |-> orders[i]]] :
                names \in [1..n -> CategoryNames],
                orders \in {o \in [1..n -> 1..MaxSortOrder] :
                              \A i \in 1..n, j \in 1..n : i < j => o[i] <= o[j]} } :
            n \in 0..MaxCategories }

\* channels of an earlier session whose category is null or was deleted since
LegacyChannels ==
    << [id |-> 1, name |-> "Lead Vox", default_order |-> 1, category_id |-> Null],
       [id |-> 2, name |-> "Kick In", default_order |-> 1, category_id |-> MaxCategories + 1] >>

InitCatalog ==
    /\ PageIdle
    /\ route = "builder"
    /\ channels = {}
    /\ dbTechlists = {}
    /\ dbTechlistChannels = {}
    /\ saves = NoSaves
    /\ saveRuns = NoRuns
    /\ \E cats \in CategoryLists, chs \in {<<>>, LegacyChannels} :
          catalog = [categories |-> cats, canonicalChannels |-> chs]

\* the "+" of a category with a channel name typed; orderInput is Null when the
\* order field is empty
handleAddChannel(categoryId, orderInput) ==
    LET chs == catalog.canonicalChannels
        orders == {0} \cup {chs[i].default_order :
                                i \in {j \in DOMAIN chs : chs[j].category_id = categoryId}}
        maxOrder == CHOOSE m \in orders : \A o \in orders : o <= m
        defaultOrder == IF orderInput # Null THEN orderInput ELSE maxOrder + 1
        newChannel == [id |-> Len(chs) + 1, name |-> "new", default_order |-> defaultOrder,
                       category_id |-> categoryId]
    IN /\ Len(chs) < MaxCatalogChannels
       /\ catalog' = [catalog EXCEPT !.canonicalChannels = Append(chs, newChannel)]
       /\ error' = ""
       /\ UNCHANGED <<dbVars, localVars, editingBandId, newBandName, newBandSelection,
                      bandDirty, runVars, uniqueViolation, lastOp, lastSave, route, saves,
                      saveRuns, saveReachedStore, autoSaveTimerRef, otherRun, techVars>>

NextCatalog ==
    \E cat \in Range(catalog.categories), orderInput \in {Null, 1} :
        handleAddChannel(cat.id, orderInput)

SpecCatalog == InitCatalog /\ [][NextCatalog]_vars

----------------------------------------------------------------------------
(* SpecTwoSaves: two sessions save new bands of the same event; the store   *)
(* calls of a handleAddBand call are steps of their own, and nothing orders *)
(* the steps of the two sessions                                            *)

\* what the steps of the band saves leave alone
saveStepIdle == <<localVars, editingBandId, newBandName, newBandSelection, bandDirty, error,
                  runVars, uniqueViolation, lastOp, lastSave, route, catalog, saveRuns,
                  saveReachedStore, autoSaveTimerRef, otherRun, techVars>>

\* the usage rows of the other session's running save that it has not written yet
PendingUsage(s) ==
    UNION {UsageRows(Null, saves[o].canonicalIds, saves[o].canonicalToPatch) :
           o \in {t \in Sessions \ {s} : saves[t].phase = "ensured"}}

pruneUsageDataWithPending(s) == dbUsage \cup PendingUsage(s)

\* pruneUnusedPatchChannels in session s: usageData, the rows of band_channel_usage
pruneUsageData(s) == dbUsage

InitTwoSaves ==
    /\ dbBands = {}
    /\ dbPatch = {}
    /\ dbUsage = {}
    /\ nextPatchId = 1
    /\ bands = <<>>
    /\ patchChannels = <<>>
    /\ usageMap = {}
    /\ FormInit
    /\ RunIdle
    /\ uniqueViolation = FALSE
    /\ lastOp = "load"
    /\ lastSave = NoSave
    /\ BuilderOnly

\* session s opens or reloads the builder: loadEventData sets patchChannels
loadEventDataIn(s) ==
    /\ saves[s].phase \in {"idle", "done", "stopped"}
    /\ saves' = [saves EXCEPT ![s] = [NoSaves[s] EXCEPT !.list = OrderByNumber(dbPatch)]]
    /\ saves' # saves
    /\ UNCHANGED <<dbVars, saveStepIdle>>

\* handleAddBand of session s until ensurePatchChannels has answered
ensureStep(s, selection) ==
    LET ens == ensurePatchChannelsFrom(saves[s].list, dbPatch, nextPatchId, selection)
    IN /\ saves[s].phase = "idle"
       /\ selection # <<>>
       /\ Cardinality(dbBands) + Cardinality({t \in Sessions : saves[t].phase = "ensured"})
             < MaxBands
       /\ ens.nextId - 1 <= MaxPatchIds
       /\ dbPatch' = ens.rows
       /\ nextPatchId' = ens.nextId
       /\ saves' = [saves EXCEPT ![s] = [phase |-> "ensured", list |-> ens.local,
                                         canonicalIds |-> selection,
                                         canonicalToPatch |-> ens.map, band |-> Null]]
       /\ UNCHANGED <<dbBands, dbUsage, saveStepIdle>>

\* handleAddBand of session s: the insert of the band and of its usage rows
usageStep(s) ==
    LET targetBandId == Cardinality(dbBands) + 1
        usageRows == UsageRows(targetBandId, saves[s].canonicalIds, saves[s].canonicalToPatch)
        usageError == UsageInsertError(usageRows, dbUsage, dbPatch)
    IN /\ saves[s].phase = "ensured"
       /\ dbBands' = dbBands \cup {[id |-> targetBandId, name |-> <<"A">>,
                                   sort_order |-> targetBandId]}
       /\ dbUsage' = (IF usageError THEN dbUsage ELSE dbUsage \cup usageRows)
       \* on usageError the handler returns after setError
       /\ saves' = [saves EXCEPT ![s].phase = IF usageError THEN "stopped" ELSE "written",
                                 ![s].band = targetBandId]
       /\ UNCHANGED <<dbPatch, nextPatchId, saveStepIdle>>

\* handleAddBand of session s: loadEventData, pruneUnusedPatchChannels, loadEventData
pruneStep(s) ==
    /\ saves[s].phase = "written"
    /\ \E run \in pruneAnswers(dbPatch, pruneUsageData(s)) :
          /\ dbPatch' = run.rows
          /\ dbUsage' = {u \in dbUsage : u \in run.usage}
          /\ saves' = [saves EXCEPT ![s].phase = "done",
                                    ![s].list = OrderByNumber(run.rows)]
    /\ UNCHANGED <<dbBands, nextPatchId, saveStepIdle>>

NextTwoSaves ==
    \/ \E s \in Sessions : loadEventDataIn(s)
    \/ \E s \in Sessions, selection \in SelectionInputs : ensureStep(s, selection)
    \/ \E s \in Sessions : usageStep(s)
    \/ \E s \in Sessions : pruneStep(s)

SpecTwoSaves == InitTwoSaves /\ [][NextTwoSaves]_vars

----------------------------------------------------------------------------
(* SpecSaveRuns: the builder and the techlist page, one session; a save      *)
(* awaits the store while the user goes on and the timer of the auto-save    *)
(* effect runs; the store answers the saves in flight in any order           *)

MaxInFlight == 2        \* saves of one page that await the store together
MaxStarted == 3         \* SpecSaveRuns: saves started in one behaviour

\* a handleAddBand / handleSaveTechlist call that awaits the store: isAuto and
\* what the call reads from the render it was created in
SaveCall(isAuto, c) == [auto |-> isAuto, c |-> c]

keptThroughSaving == autoSaveTimerRef

\* builder: the render after setSavingBand(true) runs the cleanup of the auto-save
\* effect (clearTimeout), and the effect returns at "if (savingBand) return"
clearedBySavingBand == NoClosure

\* builder: the head of handleAddBand, from the save button (the button is
\* disabled while savingBand) or from the timer
bandSaveStarts(isAuto) ==
    LET c == IF isAuto THEN autoSaveTimerRef
             ELSE BandClosure(editingBandId, newBandName, newBandSelection)
    IN /\ route = "builder"
       /\ Len(saveRuns.inFlight) < MaxInFlight
       /\ saveRuns.started < MaxStarted
       /\ IF isAuto THEN autoSaveTimerRef.set ELSE ~saveRuns.saving
       /\ ~NameMissing(c.name)
       /\ saveRuns' = [saving |-> (IF isAuto THEN saveRuns.saving ELSE TRUE),
                       inFlight |-> Append(saveRuns.inFlight, SaveCall(isAuto, c)),
                       started |-> saveRuns.started + 1]
       /\ error' = (IF isAuto THEN error ELSE "")
       /\ autoSaveTimerRef' = (IF isAuto THEN NoClosure ELSE clearedBySavingBand)
       /\ UNCHANGED <<dbVars, localVars, editingBandId, newBandName, newBandSelection,
                      bandDirty, runVars, uniqueViolation, lastOp, lastSave,
                      route, catalog, saves, saveReachedStore, otherRun, techVars>>

\* builder: the store answers the calls of the i-th save in flight; the tail of
\* handleAddBand sets savingBand to false for a manual and for an automatic save
bandSaveAnswered(i) ==
    /\ route = "builder"
    /\ i \in DOMAIN saveRuns.inFlight
    /\ LET r == saveRuns.inFlight[i]
       IN /\ \E selection \in Perms(r.c.selection) :
                handleAddBand(r.c.editing, r.c.name, selection)
          /\ saveRuns' = [saving |-> (IF lastOp' = "saveFailed" /\ r.auto
                                      THEN saveRuns.saving ELSE FALSE),
                          inFlight |-> RemoveAt(saveRuns.inFlight, i),
                          started |-> saveRuns.started]
    /\ autoSaveTimerRef' =
          (IF \/ bandDirty' # bandDirty
              \/ newBandName' # newBandName
              \/ editingBandId' # editingBandId
              \/ saveRuns'.saving # saveRuns.saving
           THEN IF saveRuns'.saving THEN NoClosure ELSE BandTimer
           ELSE autoSaveTimerRef)

\* techlist: the head of handleSaveTechlist, from the save button (disabled
\* while saving) or from the timer; the effect does not depend on saving
techlistSaveStarts(isAuto) ==
    LET c == IF isAuto THEN autoSaveTimerRef
             ELSE SaveClosure(selectedTechlistId, bandName, bandNotes,
                      selectedChannelsSorted(channels, selectedChannelIds, channelOrder),
                      channelDetails)
        creating == {k \in DOMAIN saveRuns.inFlight : saveRuns.inFlight[k].c.techlistId = Null}
    IN /\ route = "techlist"
       /\ Len(saveRuns.inFlight) < MaxInFlight
       /\ saveRuns.started < MaxStarted
       /\ IF isAuto THEN autoSaveTimerRef.set ELSE ~saveRuns.saving
       /\ ~NameMissing(c.name)
       /\ ~NoChannels(c.rows)
       /\ c.techlistId = Null => Cardinality(dbTechlists) + Cardinality(creating) < MaxTechlists
       /\ saveRuns' = [saving |-> (IF isAuto THEN saveRuns.saving ELSE TRUE),
                       inFlight |-> Append(saveRuns.inFlight, SaveCall(isAuto, c)),
                       started |-> saveRuns.started + 1]
       /\ error' = (IF isAuto THEN error ELSE "")
       /\ saveReachedStore' = TRUE
       /\ autoSaveTimerRef' = (IF isAuto THEN NoClosure ELSE autoSaveTimerRef)
       /\ UNCHANGED <<builderVars, route, catalog, saves, otherRun, techVars>>

\* techlist: the store answers the calls of the i-th save in flight
techlistSaveAnswered(i) ==
    /\ route = "techlist"
    /\ i \in DOMAIN saveRuns.inFlight
    /\ LET r == saveRuns.inFlight[i]
           c == r.c
           creating == c.techlistId = Null
           techlistId == IF creating THEN Cardinality(dbTechlists) + 1 ELSE c.techlistId
           record == [id |-> techlistId, name |-> trim(c.name), notes |-> trim(c.notes)]
           rows == {[techlist_id |-> techlistId, channel_number |-> idx,
                     canonical_channel_id |-> c.rows[idx],
                     details |-> c.rows[idx] \in c.details] : idx \in DOMAIN c.rows}
       IN /\ dbTechlists' = {t \in dbTechlists : t.id # techlistId} \cup {record}
          /\ dbTechlistChannels' = {q \in dbTechlistChannels : q.techlist_id # techlistId} \cup rows
          /\ selectedTechlistId' = (IF creating THEN techlistId ELSE selectedTechlistId)
          /\ channelOrder' = (IF creating THEN c.rows ELSE channelOrder)
          /\ isDirty' = FALSE
          /\ saveRuns' = [saving |-> (IF r.auto THEN saveRuns.saving ELSE FALSE),
                          inFlight |-> RemoveAt(saveRuns.inFlight, i),
                          started |-> saveRuns.started]
          /\ UNCHANGED <<builderVars, route, catalog, saves, saveReachedStore, otherRun, error,
                         channels, bandName, bandNotes, selectedChannelIds, channelDetails,
                         saveRun, saveMessage>>
          /\ autoSaveEffect(creating)

NextSaveRuns ==
    \/ ~saveRuns.saving /\ route = "builder" /\ \E name \in BandNameInputs : setNewBandName(name)
    \/ ~saveRuns.saving /\ route = "builder" /\ \E id \in 1..MaxSelected : toggleNewSelection(id)
    \/ \E isAuto \in BOOLEAN : bandSaveStarts(isAuto)
    \/ \E i \in 1..MaxInFlight : bandSaveAnswered(i)
    \/ ~saveRuns.saving /\ route = "techlist" /\ \E name \in BandNameInputs : setBandName(name)
    \/ route = "techlist" /\ \E id \in channels : toggleChannel(id)
    \/ \E isAuto \in BOOLEAN : techlistSaveStarts(isAuto)
    \/ \E i \in 1..MaxInFlight : techlistSaveAnswered(i)

SpecSaveRuns == InitAutosave /\ [][NextSaveRuns]_vars

----------------------------------------------------------------------------
(* SpecMatrix: one session goes between the builder and the matrix page of   *)
(* the event; band saves on the builder, cell toggles on the matrix          *)

\* the matrix page is opened: loadEventData of the matrix page
openMatrix ==
    /\ route = "builder"
    /\ route' = "matrix"
    /\ bands' = OrderBySortOrder(dbBands)
    /\ patchChannels' = OrderByNumber(dbPatch)
    /\ usageMap' = LoadedUsage(dbBands, dbUsage)
    /\ editingBandId' = Null
    /\ newBandName' = <<>>
    /\ newBandSelection' = {}
    /\ bandDirty' = FALSE
    /\ error' = ""
    /\ lastOp' = "load"
    /\ lastSave' = NoSave
    /\ uniqueViolation' = FALSE
    /\ UNCHANGED <<dbVars, runVars, catalog, saves, saveRuns, saveReachedStore,
                   autoSaveTimerRef, otherRun, techVars>>

\* the builder is opened again: loadEventData of the builder
openBuilder ==
    /\ route = "matrix"
    /\ route' = "builder"
    /\ bands' = OrderBySortOrder(dbBands)
    /\ patchChannels' = OrderByNumber(dbPatch)
    /\ usageMap' = LoadedUsage(dbBands, dbUsage)
    /\ editingBandId' = Null
    /\ newBandName' = <<>>
    /\ newBandSelection' = Baseline(dbBands, dbPatch, dbUsage)
    /\ bandDirty' = FALSE
    /\ error' = ""
    /\ lastOp' = "load"
    /\ lastSave' = NoSave
    /\ uniqueViolation' = FALSE
    /\ UNCHANGED <<dbVars, runVars, catalog, saves, saveRuns, saveReachedStore,
                   autoSaveTimerRef, otherRun, techVars>>

\* matrix page, getChannelName of the record of the render
getChannelName(patchChannelId) ==
    LET found == {i \in DOMAIN patchChannels : patchChannels[i].id = patchChannelId}
    IN IF found = {} THEN "Onbekend kanaal"
       ELSE CanonicalName(patchChannels[CHOOSE i \in found : TRUE].canonical_channel_id)

\* matrix page: the cell of a band and a record of the list is clicked; the
\* upsert needs the band and the record in the store
toggleUsage(bandId, patchChannelId) ==
    LET current == {u \in usageMap : u.band_id = bandId /\ u.patch_channel_id = patchChannelId}
        nextUsed == ~(\E u \in current : u.is_used)
        label == IF current # {} THEN (CHOOSE u \in current : TRUE).label
                 ELSE IF nextUsed THEN getChannelName(patchChannelId) ELSE ""
        payload == [band_id |-> bandId, patch_channel_id |-> patchChannelId,
                    is_used |-> nextUsed, label |-> label]
        upsertError == \/ \A b \in dbBands : b.id # bandId
                       \/ \A p \in dbPatch : p.id # patchChannelId
        Same(u) == u.band_id = bandId /\ u.patch_channel_id = patchChannelId
    IN /\ route = "matrix"
       /\ IF upsertError
          THEN /\ error' = "Fout bij opslaan van de matrix."
               /\ UNCHANGED <<dbUsage, usageMap>>
          ELSE /\ error' = ""
               /\ dbUsage' = {u \in dbUsage : ~Same(u)} \cup {payload}
               /\ usageMap' = {u \in usageMap : ~Same(u)} \cup {payload}
       /\ lastOp' = "other"
       /\ lastSave' = NoSave
       /\ uniqueViolation' = FALSE
       /\ UNCHANGED <<dbBands, dbPatch, nextPatchId, bands, patchChannels, editingBandId,
                      newBandName, newBandSelection, bandDirty, runVars, pageVars>>

NextMatrix ==
    \/ route = "builder" /\ \E b \in 0..MaxBands, sel \in SelectionInputs :
                               SaveBand(b, <<"A">>, sel)
    \/ openMatrix
    \/ \E i \in DOMAIN bands, j \in DOMAIN patchChannels :
          toggleUsage(bands[i].id, patchChannels[j].id)
    \/ openBuilder

SpecMatrix == InitBuilderPage /\ [][NextMatrix]_vars

----------------------------------------------------------------------------
(* Claims on applyChannelOrder *)

NumberAt(rows, id) == (CHOOSE p \in rows : p.id = id).channel_number

RunIsDense ==
    /\ \A i \in DOMAIN runOrder : NumberAt(dbPatch, runOrder[i]) = i
    /\ {p.channel_number : p \in dbPatch} = 1..Cardinality(dbPatch)

StartedBelowOffset == \A p \in runStart : p.channel_number < TempOffset

\* C1 as stated: whatever numbers the records held before, after applyChannelOrder
\* has completed the record at list position i holds i + 1 (positions from 0)
\* and the numbers of the event are exactly 1..N.
C1_AnyPriorNumbers == runPhase = "done" => RunIsDense

\* C1 amended: when every record held a number below 1000 before the run, after
\* applyChannelOrder has completed the record at list position i holds i + 1
\* and the numbers of the event are exactly 1..N, for every target ordering.
C1_RenumberDense == (runPhase = "done" /\ StartedBelowOffset) => RunIsDense

\* a completed run over three records that started from gapped numbers and
\* moved at least one record to another rank
C1_Witness ==
    /\ runPhase = "done"
    /\ StartedBelowOffset
    /\ Cardinality(runStart) = 3
    /\ \E p \in runStart : p.channel_number > 3
    /\ \E p \in runStart, q \in runStart :
          /\ p.channel_number < q.channel_number
          /\ NumberAt(dbPatch, p.id) > NumberAt(dbPatch, q.id)

----------------------------------------------------------------------------
(* Claims on the builder *)

Numbers(rows) == {p.channel_number : p \in rows}

UsageOf(usageRows, bandId) == {u \in usageRows : u.band_id = bandId}

C3_DenseNumbers ==
    /\ Numbers(dbPatch) = 1..Cardinality(dbPatch)
    /\ \A p \in dbPatch, q \in dbPatch : p.channel_number = q.channel_number => p = q

\* a band save whose prune deleted a record and left two to renumber
C3_Witness ==
    /\ lastOp = "save"
    /\ lastSave.deleted > 0
    /\ Cardinality(dbPatch) = 2
    /\ \E p \in dbPatch : p.id > p.channel_number

\* the records at least one band of the event uses
UsedPatchIds ==
    {u.patch_channel_id : u \in {v \in dbUsage : v.is_used /\ \E b \in dbBands : b.id = v.band_id}}

C5_SaveTwice ==
    [][(lastOp' = "save" /\ lastSave'.again) =>
          /\ dbPatch' = dbPatch
          /\ UsageOf(dbUsage', lastSave'.band) = UsageOf(dbUsage, lastSave'.band)]_vars

\* the second of two equal saves of a band with two channels
C5_Witness ==
    /\ lastOp = "save"
    /\ lastSave.again
    /\ Cardinality(lastSave.selection) = 2

\* the channel a usage row points at, through the PatchChannel of the event
ChannelOfUsage(u) ==
    {p.canonical_channel_id : p \in {q \in dbPatch : q.id = u.patch_channel_id}}

\* C6: after a band save has completed, the usage rows of the band are one row
\* with is_used = true per channel of the saved selection, each pointing at the
\* PatchChannel of the event that references the channel, and no row for a
\* channel outside the selection.
C6_UsageIsSelection ==
    lastOp = "save" =>
        LET rows == UsageOf(dbUsage, lastSave.band)
        IN /\ \A u \in rows : u.is_used /\ \E c \in lastSave.selection : ChannelOfUsage(u) = {c}
           /\ \A c \in lastSave.selection :
                 Cardinality({u \in rows : ChannelOfUsage(u) = {c}}) = 1
           /\ Cardinality(rows) = Cardinality(lastSave.selection)

\* a save of an existing band that replaced its rows: two channels selected,
\* and a record of a channel it no longer uses deleted
C6_Witness ==
    /\ lastOp = "save"
    /\ Cardinality(lastSave.selection) = 2
    /\ lastSave.deleted > 0
    /\ Cardinality(UsageOf(dbUsage, lastSave.band)) = 2

\* the selected channels without a PatchChannel in the event
MissingChannels(sel) ==
    {c \in Range(sel) : \A p \in dbPatch : p.canonical_channel_id # c}

\* C7: for every selection, ensurePatchChannels on the current event creates
\* one PatchChannel per selected channel that has none, numbers the created
\* records max+1, max+2, ... above the current maximum, and leaves every
\* existing PatchChannel (id, channel number) as it was.
C7_EnsureFrame ==
    \A sel \in SelectionInputs :
        LET ens == ensurePatchChannels(dbPatch, nextPatchId, sel)
            created == ens.rows \ dbPatch
            max == MaxOf(Numbers(dbPatch))
            k == Cardinality(MissingChannels(sel))
        IN /\ dbPatch \subseteq ens.rows
           /\ Cardinality(created) = k
           /\ {p.canonical_channel_id : p \in created} = MissingChannels(sel)
           /\ Numbers(created) = (max + 1)..(max + k)
           /\ \A p \in created : \A q \in dbPatch : p.id # q.id

\* an event with records after a save, and a selection of one channel that has
\* a record and one that has none
C7_Witness ==
    /\ lastOp = "save"
    /\ Cardinality(dbPatch) = 2
    /\ \E sel \in SelectionInputs :
          /\ Len(sel) = 2
          /\ Cardinality(MissingChannels(sel)) = 1
          /\ Cardinality(ensurePatchChannels(dbPatch, nextPatchId, sel).rows) = 3

\* the position of a channel in the catalog order of the builder
CatalogRank(cid) ==
    IndexOf([i \in DOMAIN orderedCanonicalChannels |-> orderedCanonicalChannels[i].id], cid)

\* C8: a band with k selected channels saved on an event without PatchChannels
\* creates k PatchChannels numbered 1..k in catalog order of the selected
\* channels, whatever order they were checked in, and k usage rows with
\* is_used = true.
C8_EmptyEventCatalogOrder ==
    [][(dbPatch = {} /\ lastOp' = "save") =>
          /\ {p.canonical_channel_id : p \in dbPatch'} = lastSave'.selection
          /\ Numbers(dbPatch') = 1..Cardinality(lastSave'.selection)
          /\ \A p \in dbPatch', q \in dbPatch' :
                CatalogRank(p.canonical_channel_id) < CatalogRank(q.canonical_channel_id)
                   => p.channel_number < q.channel_number
          /\ Cardinality({u \in UsageOf(dbUsage', lastSave'.band) : u.is_used})
                = Cardinality(lastSave'.selection)]_vars

\* the number a record of the event held when the prune of the save started:
\* its number before the save, or the number the coverage step created it with
NumberBeforePrune(p) ==
    IF \E r \in dbPatch : r.id = p.id
    THEN NumberAt(dbPatch, p.id)
    ELSE NewNumber(MaxOf(Numbers(dbPatch)), p.id - nextPatchId)

\* C9: when the prune of a band save deletes PatchChannels, the surviving
\* records are renumbered to 1..M in the relative order they had by channel
\* number before the prune.
C9_PruneKeepsOrder ==
    [][(lastOp' = "save" /\ lastSave'.deleted > 0) =>
          /\ Numbers(dbPatch') = 1..Cardinality(dbPatch')
          /\ \A p \in dbPatch', q \in dbPatch' :
                NumberBeforePrune(p) < NumberBeforePrune(q)
                   => p.channel_number < q.channel_number]_vars

\* a save whose prune deleted a record below two survivors
C9_Witness ==
    /\ lastOp = "save"
    /\ lastSave.deleted = 1
    /\ Cardinality(dbPatch) = 2
    /\ \A p \in dbPatch : p.id > p.channel_number

\* C10: after a band has been saved, the selection pre-checked when the user
\* next starts a new band (the selector on "Nieuwe groep...", or the page
\* opened again) is the selection saved for that band.
C10_BaselineIsLastSaved ==
    [][(lastOp = "save" /\ lastOp' = "new") =>
          newBandSelection' = lastSave.selection]_vars

----------------------------------------------------------------------------
(* Claims on failing store calls and on validation *)

KeepsRecords == \A p \in dbPatch : p \in dbPatch'

\* C11: when a store call of a band save fails (insert of the missing
\* PatchChannels, insert or rename of the band, delete or insert of the usage
\* rows, delete of the unused PatchChannels), no later step of the save touches
\* the store, what was committed stays, and an error message is set when the
\* save returns.
C11_FailureStopsSave ==
    [][(lastSave'.failed \in Faults \ {"renumber"}) =>
          /\ error' # ""
          /\ KeepsRecords
          /\ lastSave'.failed = "ensure" =>
                dbPatch' = dbPatch /\ dbBands' = dbBands /\ dbUsage' = dbUsage
          /\ lastSave'.failed \in {"band", "usageDelete"} => dbUsage' = dbUsage
          /\ lastSave'.failed = "band" => dbBands' = dbBands]_vars

\* a band save was requested in this step
BandSaveRequested == lastOp' \in {"save", "saveFailed", "saveRefused"}

\* C12: a save requested with an empty or whitespace-only name (builder, techlist) or
\* without a selected channel (techlist, patch page) issues no store call and leaves
\* every table as it was; requested by hand, it sets a message.
C12_RefusedSaveIssuesNothing ==
    [][/\ (route = "builder" /\ BandSaveRequested /\ trim(newBandName') = <<>>) =>
             /\ UNCHANGED dbVars
             /\ ~saveReachedStore'
             /\ error' # ""
       /\ (/\ route = "techlist"
           /\ handleSaveTechlist
           /\ \/ trim(bandName) = <<>>
              \/ selectedChannelsSorted(channels, selectedChannelIds, channelOrder) = <<>>) =>
             /\ UNCHANGED <<dbTechlists, dbTechlistChannels>>
             /\ ~saveReachedStore'
             /\ ~saveRun'.set
             /\ error' # ""
       /\ (route = "patch" /\ handleSavePatch /\ selectedChannelIds = {}) =>
             /\ UNCHANGED dbVars
             /\ ~saveReachedStore'
             /\ saveMessage' # ""]_vars

\* a band exists and the save of a blank name was refused
C12_Witness ==
    /\ route = "builder"
    /\ lastOp = "saveRefused"
    /\ dbBands # {}
    /\ dbPatch # {}
    /\ trim(newBandName) = <<>>
    /\ ~saveReachedStore
    /\ error = "Geef een groepsnaam in."

----------------------------------------------------------------------------
(* Claims on the order of the updates of applyChannelOrder *)

\* an update of phase 2 reached the store in this step
Phase2Step == runPhase = "phase2" /\ runPending' # runPending

\* C13: within one run of applyChannelOrder an update of phase 2 reaches the store
\* only after every update of phase 1 of that run has been committed: when none was
\* rejected, each record of the run holds its phase-1 number idx + 1000 until its own
\* phase-2 update writes idx + 1, in whatever order the updates of a phase arrive.
C13_Phase2AfterPhase1 ==
    [][(Phase2Step /\ ~uniqueViolation') =>
          \A j \in DOMAIN runOrder :
             NumberAt(dbPatch', runOrder[j]) =
                (IF j \in runPending' THEN (j - 1) + TempOffset ELSE j)]_vars

\* phase 2 of a run of three records is under way, its update of the last position
\* arrived before the one of the first
C13_Witness ==
    /\ runPhase = "phase2"
    /\ ~uniqueViolation
    /\ Len(runOrder) = 3
    /\ runPending = {1, 2}
    /\ NumberAt(dbPatch, runOrder[3]) = 3
    /\ NumberAt(dbPatch, runOrder[1]) = TempOffset

\* C14: when the runs of applyChannelOrder of two sessions on the same event, each
\* with its own ordering, interleave their updates, no update writes a channel
\* number that another record of the event holds at that moment.
C14_InterleavedRunsNeverCollide ==
    (runPhase # "idle" /\ otherRun.phase # "idle") => ~uniqueViolation

----------------------------------------------------------------------------
(* Claims on the auto-save timer *)

\* C15: while an auto-save timer is pending, every further edit of the form (name,
\* channel selection, on the techlist also notes and the details of a channel)
\* cancels it and starts a new one: a pending timer was set by the render that
\* followed the last edit, and its handler saves the form as that edit left it.
C15_EditRestartsTimer == autoSaveTimerRef.set => autoSaveTimerRef.since = 0

----------------------------------------------------------------------------
(* Claims on the ordered selection of the techlist and on the patch list *)

\* the selection as the techlist page shows and saves it
currentOrder == selectedChannelsSorted(channels, selectedChannelIds, channelOrder)

\* the same selection after the step
orderAfter == selectedChannelsSorted(channels', selectedChannelIds', channelOrder')

\* a checkbox, a move or a drop on the techlist page
SelectionEdit ==
    \/ \E id \in channels : toggleChannel(id)
    \/ \E id \in CanonicalIds, d \in {-1, 1} : moveSelectedChannel(id, d)
    \/ \E a \in DragInputs, b \in CanonicalIds : reorderChannels(a, b)

\* C16: after every toggle, move and reorder on the techlist selection, the
\* resolved sequence (selectedChannelsSorted) holds exactly the selected channel
\* ids, each of them once.
C16_ResolvedIsTheSelection ==
    [][(route = "techlist" /\ SelectionEdit) =>
          /\ Range(orderAfter) = selectedChannelIds'
          /\ Len(orderAfter) = Cardinality(selectedChannelIds')]_vars

\* C17: the checkbox of an unselected channel selects it and puts it last in the
\* resolved order, the one of a selected channel removes it and keeps the order of
\* the others; the checkbox of a selected channel pressed twice leaves the selected
\* set as it was and the channel last in the resolved order.
C17_ToggleAppendsOrRemoves ==
    [][\A id \in channels :
          (route = "techlist" /\ toggleChannel(id)) =>
             IF id \notin selectedChannelIds
             THEN /\ selectedChannelIds' = selectedChannelIds \cup {id}
                  /\ orderAfter = Append(currentOrder, id)
             ELSE LET again == selectedChannelsSorted(channels,
                                   toggledSelection(selectedChannelIds', id),
                                   toggledOrder(channelOrder', id))
                  IN /\ selectedChannelIds' = selectedChannelIds \ {id}
                     /\ orderAfter = SelectSeq(currentOrder, LAMBDA item : item # id)
                     /\ toggledSelection(selectedChannelIds', id) = selectedChannelIds
                     /\ again # <<>>
                     /\ again[Len(again)] = id]_vars

\* the ids of the patch list in the order the builder shows them
patchChannelRows == LET rows == OrderByNumber(Range(patchChannels))
                    IN [i \in DOMAIN rows |-> rows[i].id]

\* order with id and its neighbour in the given direction exchanged; order itself
\* when id is not in it or has no such neighbour
Exchanged(order, id, direction) ==
    LET i == IndexOf(order, id)
        j == i + direction
    IN IF i = 0 \/ j < 1 \/ j > Len(order)
       THEN order
       ELSE [order EXCEPT ![i] = order[j], ![j] = order[i]]

\* C18: a move of an id up or down exchanges it with its immediate neighbour in the
\* current order and changes nothing else: the selected set (the records of the
\* patch list) stays and every other position is kept; the first id moved up and
\* the last id moved down leave the order as it is.  On the builder the store
\* holds the same order afterwards.
C18_MoveExchangesNeighbours ==
    [][/\ \A id \in CanonicalIds, d \in {-1, 1} :
             (route = "techlist" /\ moveSelectedChannel(id, d)) =>
                /\ orderAfter = Exchanged(currentOrder, id, d)
                /\ selectedChannelIds' = selectedChannelIds
       /\ \A id \in PatchIdInputs, d \in {-1, 1} :
             (route = "builder" /\ movePatchChannel(id, d)) =>
                /\ patchChannelRows' = Exchanged(patchChannelRows, id, d)
                /\ LET stored == OrderByNumber(dbPatch')
                   IN [i \in DOMAIN stored |-> stored[i].id] = patchChannelRows'
                /\ {p.id : p \in dbPatch'} = {p.id : p \in dbPatch}]_vars

\* the second of three records of the patch list was moved up
C18_Witness ==
    /\ route = "builder"
    /\ lastOp = "other"
    /\ patchChannelRows = <<2, 1, 3>>
    /\ OrderByNumber(dbPatch) = patchChannels
    /\ ~uniqueViolation

\* order without id
Without(order, id) == SelectSeq(order, LAMBDA item : item # id)

\* C19: a drop of draggedId on targetId, two different ids of the current order, puts
\* draggedId at the index targetId had before and keeps the relative order of all
\* other ids; when the two ids are equal or one of them is not in the current order
\* the order stays as it is and no store update is issued.
C19_ReorderPlacesAtTarget ==
    [][/\ \A a \in DragInputs, b \in CanonicalIds :
             (route = "techlist" /\ reorderChannels(a, b)) =>
                IF a # b /\ IndexOf(currentOrder, a) # 0 /\ IndexOf(currentOrder, b) # 0
                THEN /\ IndexOf(orderAfter, a) = IndexOf(currentOrder, b)
                     /\ Without(orderAfter, a) = Without(currentOrder, a)
                     /\ selectedChannelIds' = selectedChannelIds
                ELSE /\ orderAfter = currentOrder
                     /\ UNCHANGED <<channelOrder, isDirty, dbTechlists, dbTechlistChannels,
                                    saveRun, autoSaveTimerRef>>
       /\ \A a \in PatchIdInputs, b \in PatchIdInputs :
             (route = "builder" /\ reorderPatchChannel(a, b)) =>
                IF a # b /\ IndexOf(patchChannelRows, a) # 0 /\ IndexOf(patchChannelRows, b) # 0
                THEN /\ IndexOf(patchChannelRows', a) = IndexOf(patchChannelRows, b)
                     /\ Without(patchChannelRows', a) = Without(patchChannelRows, a)
                     /\ LET stored == OrderByNumber(dbPatch')
                        IN [i \in DOMAIN stored |-> stored[i].id] = patchChannelRows'
                ELSE /\ patchChannelRows' = patchChannelRows
                     /\ UNCHANGED <<dbPatch, runPhase>>]_vars

\* the last of three records of the patch list was dropped on the first
C19_Witness ==
    /\ route = "builder"
    /\ lastOp = "other"
    /\ patchChannelRows = <<3, 1, 2>>
    /\ OrderByNumber(dbPatch) = patchChannels
    /\ ~uniqueViolation

----------------------------------------------------------------------------
(* Claims on calls with unknown ids *)

\* the selected set, the explicit order, the dirty flag and the error stay
SelectionKept == UNCHANGED <<selectedChannelIds, channelOrder, isDirty, error>>

\* moveSelectedChannel and reorderChannels with an id that is not in the resolved
\* selection leave the selection, the order, the dirty flag and the error
UnknownMoveIsNoOp ==
    /\ \A id \in CanonicalIds, d \in {-1, 1} :
          (IndexOf(currentOrder, id) = 0 /\ moveSelectedChannel(id, d)) => SelectionKept
    /\ \A a \in DragInputs, b \in CanonicalIds :
          ((IndexOf(currentOrder, a) = 0 \/ IndexOf(currentOrder, b) = 0)
             /\ reorderChannels(a, b)) => SelectionKept

----------------------------------------------------------------------------
(* Claims on the order of the catalog *)

\* useMemo orderedCanonicalChannels / orderedChannels on the state of the page
orderedCatalog == SortCanonical(catalog.categories, catalog.canonicalChannels)

\* a comes before b by weight of the category, then by default_order, then by the
\* place in the list that was sorted
SortsBefore(a, b) ==
    LET wa == CatWeight(catalog.categories, a.category_id)
        wb == CatWeight(catalog.categories, b.category_id)
        chs == catalog.canonicalChannels
    IN \/ wa < wb
       \/ wa = wb /\ a.default_order < b.default_order
       \/ wa = wb /\ a.default_order = b.default_order /\ IndexOf(chs, a) < IndexOf(chs, b)

\* C22: for any categories and channels the catalog order holds the channels of
\* the page, each once, sorted by the weight categoryOrderValue gives the name of
\* the channel's category (the sentinel weight, hence last, for channels with no
\* category or a category that is not loaded), then by ascending default_order,
\* channels equal on both keys in the order they had in the list; the order is
\* a function of the categories and the channels.
C22_CatalogOrderSorted ==
    /\ Len(orderedCatalog) = Len(catalog.canonicalChannels)
    /\ Range(orderedCatalog) = Range(catalog.canonicalChannels)
    /\ \A i \in DOMAIN orderedCatalog, j \in DOMAIN orderedCatalog :
          i < j => SortsBefore(orderedCatalog[i], orderedCatalog[j])
    /\ \A ch \in Range(catalog.canonicalChannels) :
          (\A c \in Range(catalog.categories) : c.id # ch.category_id) =>
             CatWeight(catalog.categories, ch.category_id) = Sentinel

\* a channel was added to a recognised category: it sorts before the two channels
\* without a loaded category, which keep the order they had
C22_Witness ==
    /\ catalog.canonicalChannels = Append(LegacyChannels, [id |-> 3, name |-> "new",
                                      default_order |-> 1, category_id |-> 1])
    /\ [i \in DOMAIN orderedCatalog |-> orderedCatalog[i].id] = <<3, 1, 2>>

\* the keyword sets a name matches
Hits(name) ==
    {k \in DOMAIN orderMap : \E t \in orderMap[k].tokens : includes(toLowerCase(name), t)}

\* one name per keyword set, in the order drums, percussion, bass, guitar, keys,
\* miscellaneous, vocals
GroupNames ==
    << <<"D", "r", "u", "m", "s">>, <<"P", "e", "r", "c">>, <<"B", "a", "s", "s">>,
       <<"G", "u", "i", "t", "a", "r">>, <<"K", "e", "y", "s">>, <<"O", "t", "h", "e", "r">>,
       <<"V", "o", "x">> >>

\* C23: categoryOrderValue gives the recognised groups strictly increasing weights
\* in the order drums < percussion < bass < guitar < keys < miscellaneous < vocals,
\* gives a name that matches several keyword sets the weight of the earliest of
\* them, and gives a name that matches none a weight larger than every recognised
\* one; in sortedCategories every unrecognised category comes after all recognised
\* ones and categories of equal weight are in ascending sort_order.
C23_CategoryRanking ==
    LET sorted == sortedCategories(catalog.categories)
        recognised(c) == Hits(c.name) # {}
    IN /\ \A g \in DOMAIN GroupNames, h \in DOMAIN GroupNames :
             /\ Hits(GroupNames[g]) = {g}
             /\ g < h => categoryOrderValue(GroupNames[g]) < categoryOrderValue(GroupNames[h])
       /\ \A c \in Range(catalog.categories) :
             IF recognised(c)
             THEN \A k \in Hits(c.name) :
                     categoryOrderValue(c.name) <= categoryOrderValue(GroupNames[k])
                     /\ (\E first \in Hits(c.name) :
                            /\ \A h \in Hits(c.name) : first <= h
                            /\ categoryOrderValue(c.name) = categoryOrderValue(GroupNames[first]))
             ELSE \A g \in DOMAIN GroupNames :
                     categoryOrderValue(c.name) > categoryOrderValue(GroupNames[g])
       /\ Len(sorted) = Len(catalog.categories)
       /\ Range(sorted) = Range(catalog.categories)
       /\ \A i \in DOMAIN sorted, j \in DOMAIN sorted :
             i < j =>
                /\ recognised(sorted[j]) => recognised(sorted[i])
                /\ categoryOrderValue(sorted[i].name) <= categoryOrderValue(sorted[j].name)
                /\ categoryOrderValue(sorted[i].name) = categoryOrderValue(sorted[j].name)
                      => sorted[i].sort_order <= sorted[j].sort_order

\* an unrecognised category with the smaller sort_order and a category that matches
\* the keywords of bass and of drums: the recognised one is shown first
C23_Witness ==
    /\ Len(catalog.categories) = 2
    /\ catalog.categories[1].name = <<"F", "X">>
    /\ catalog.categories[1].sort_order < catalog.categories[2].sort_order
    /\ catalog.categories[2].name = <<"B", "a", "s", "s", " ", "D", "r", "u", "m">>
    /\ Cardinality(Hits(catalog.categories[2].name)) = 2
    /\ sortedCategories(catalog.categories) = <<catalog.categories[2], catalog.categories[1]>>

----------------------------------------------------------------------------
(* Claims on the patch page *)

\* the channel of the catalog a patch_channels row references
ChannelOf(p) == CHOOSE ch \in Range(canonicalChannels) : ch.id = p.canonical_channel_id

----------------------------------------------------------------------------
(* Claims on band saves of two sessions *)

\* the records session o holds in canonicalToPatch for the channels of its save
Intended(o) ==
    {saves[o].canonicalToPatch[c].id :
        c \in Range(saves[o].canonicalIds) \cap DOMAIN saves[o].canonicalToPatch}

UsedIn(usageRows) == {u.patch_channel_id : u \in {v \in usageRows : v.is_used}}

\* C25: nothing coordinates the band saves of two sessions: the prune step of one
\* save deletes every PatchChannel that the other save, still before the insert of
\* its usage rows, has created or selected and that no usage row in the store uses
C25_PruneDeletesPending ==
    [][\A s \in Sessions, o \in Sessions :
          (/\ pruneStep(s)
           /\ o # s
           /\ saves[o].phase = "ensured")
          => \A id \in Intended(o) \ UsedIn(dbUsage) : \A p \in dbPatch' : p.id # id]_vars

\* one save has pruned, and the other, in flight, holds a deleted record for a
\* channel of its selection
C25_Witness ==
    \E s \in Sessions, o \in Sessions :
       /\ saves[s].phase = "done"
       /\ saves[o].phase = "ensured"
       /\ \E id \in Intended(o) : \A p \in dbPatch : p.id # id

----------------------------------------------------------------------------
(* Claims on the saves in flight *)

\* a save has started in this step
SaveStarted == Len(saveRuns'.inFlight) = Len(saveRuns.inFlight) + 1

StartedCall == saveRuns'.inFlight[Len(saveRuns'.inFlight)]

\* C26 as stated: on the builder and on the techlist page at most one save awaits
\* the store at any time
C26_OneSaveInFlight == Len(saveRuns.inFlight) <= 1

\* C26: a save by the button starts only while savingBand / saving is false, and on
\* the builder no timer of the auto-save effect is pending and no automatic save
\* starts while savingBand is true
C26_StartsOnlyWhileNotSaving ==
    [][/\ SaveStarted /\ ~StartedCall.auto => ~saveRuns.saving
       /\ SaveStarted /\ StartedCall.auto /\ route = "builder" => ~saveRuns.saving
       /\ route' = "builder" /\ saveRuns'.saving => ~autoSaveTimerRef'.set]_vars

\* builder: the save button was pressed while an automatic save awaited the store
C26_Witness ==
    /\ route = "builder"
    /\ Len(saveRuns.inFlight) = 2
    /\ saveRuns.inFlight[1].auto
    /\ ~saveRuns.inFlight[2].auto
    /\ saveRuns.saving

----------------------------------------------------------------------------
(* Claims on the form after a band save *)

\* the channels the band uses in the store
StoreSelection(bandId, patchRows, usageRows) ==
    {p.canonical_channel_id : p \in
        {q \in patchRows : \E u \in usageRows : /\ u.band_id = bandId
                                                /\ u.patch_channel_id = q.id
                                                /\ u.is_used}}

\* C27: when a save of a band that existed before the save completes, the channels
\* checked in the form are the channels that band uses in the store
C27_FormShowsSavedSelection ==
    [][(/\ lastOp' = "save"
        /\ \E b \in dbBands : b.id = lastSave'.band)
       => newBandSelection' = StoreSelection(lastSave'.band, dbPatch', dbUsage')]_vars

----------------------------------------------------------------------------
(* Claims on what the store holds once the form is clean *)

\* the store holds the band of the form with the form's name and channels
BandPersisted ==
    /\ \E b \in dbBands : b.id = editingBandId /\ b.name = trim(newBandName)
    /\ StoreSelection(editingBandId, dbPatch, dbUsage) = newBandSelection

\* the store holds the techlist of the form with the form's name, notes, channels
\* in the order shown, and details
TechlistPersisted ==
    LET rows == selectedChannelsSorted(channels, selectedChannelIds, channelOrder)
    IN /\ \E t \in dbTechlists : /\ t.id = selectedTechlistId
                                 /\ t.name = trim(bandName)
                                 /\ t.notes = trim(bandNotes)
       /\ {r \in dbTechlistChannels : r.techlist_id = selectedTechlistId}
             = {[techlist_id |-> selectedTechlistId, channel_number |-> idx,
                 canonical_channel_id |-> rows[idx],
                 details |-> rows[idx] \in channelDetails] : idx \in DOMAIN rows}

\* C28: once the edits of a loaded band or techlist have been followed by the
\* saves they set off, the store holds the form's content: whenever the dirty flag
\* is false and no save awaits the store, the persisted content is the form's
C28_CleanFormIsPersisted ==
    /\ (route = "builder" /\ editingBandId # Null /\ ~bandDirty) => BandPersisted
    /\ (route = "techlist" /\ selectedTechlistId # Null /\ ~isDirty /\ ~saveRun.set)
          => TechlistPersisted

----------------------------------------------------------------------------
(* Claims on the canonical channels of the patch list *)

----------------------------------------------------------------------------
(* Claims on the usage rows of pruned records *)

====
